---- MODULE Spec2Model ----
(***************************************************************************)
(* A model of SequenceParsing.cpp: the file-name tokenizer                 *)
(* (FileNameContent), the file-to-file comparison                          *)
(* (FileNameContent::matchesPattern), the pattern generator                *)
(* (generatePatternWithFrameNumberAtIndexes) and the sequence aggregator   *)
(* (SequenceFromFiles).                                                    *)
(*                                                                         *)
(* A std::string is a sequence of one-character strings.  Positions inside *)
(* operators that mirror std::string calls are 0-based, as in the source,  *)
(* and npos is -1.                                                         *)
(***************************************************************************)
EXTENDS Integers, Sequences, FiniteSets, TLC

VARIABLES
    sequence,                  \* SequenceFromFilesPrivate::sequence
    filesList,                 \* SequenceFromFilesPrivate::filesList
    filesMap,                  \* SequenceFromFilesPrivate::filesMap
    frameNumberStringIndexes,  \* SequenceFromFilesPrivate::frameNumberStringIndexes
    totalSize,                 \* SequenceFromFilesPrivate::totalSize
    sizeEstimationEnabled,     \* SequenceFromFilesPrivate::sizeEstimationEnabled
    op,                        \* the operation that ran last
    ret,                       \* its boolean return value
    args,                      \* the arguments of the operations under study; for
                               \* tryInsertFile in Spec, whether the file offered
                               \* was in filesList before the call
    out                        \* the values they returned, in call order

vars == <<sequence, filesList, filesMap, frameNumberStringIndexes, totalSize,
          sizeEstimationEnabled, op, ret, args, out>>

aggregate == <<sequence, filesList, filesMap, frameNumberStringIndexes, totalSize>>

(***************************************************************************)
(* Bounds of the model.                                                    *)
(***************************************************************************)
\* digits 0..MaxDigit are used in the generated file names
MaxDigit == 2
\* a call of tryInsertFile is left out when it would make the sequence longer
MaxMembers == 3
\* longest file name handed to FileNameContent::matchesPattern
MatchMaxLen == 3
\* longest file name of the two-file pattern scenario
PairMaxLen == 3
\* longest digit run of the generated names of the padding scenario
JoinMaxRun == 3
\* longest generated file name handed to the tokenizer alone
ParseMaxLen == 5
\* longest generated pattern handed to generateFileNameFromPattern
RenderMaxLen == 5
\* longest generated pattern and file name handed to filesListFromPattern
ListMaxLen == 4
\* longest generated stem of the round trip from a file name to its pattern
RoundMaxLen == 3
\* longest generated pattern and longest generated file name handed to the
\* matcher of compiled patterns
PatternMaxLen == 4
FileMaxLen == 3
\* widest generated frame field and longest generated digit string handed to
\* checkVariable
WidthMax == 3
VariableMaxLen == 4

(***************************************************************************)
(* Characters and the string helpers.                                      *)
(***************************************************************************)
INT_MAX == 2147483647

INT_MIN == (0 - INT_MAX) - 1

NATRON_DIALOG_MAX_SEQUENCES_HOLE == 1000

npos == -1

DigitChars == <<"0", "1", "2", "3", "4", "5", "6", "7", "8", "9">>

\* std::isdigit
isdigit(c) == \E i \in 1..10 : DigitChars[i] = c

DigitValue(c) == (CHOOSE i \in 1..10 : DigitChars[i] = c) - 1

Range(s) == {s[i] : i \in 1..Len(s)}

\* the set of non-empty strings over chars of length at most n
StringsUpTo(chars, n) == UNION {[1..k -> chars] : k \in 1..n}

\* std::string::at(pos), pos 0-based
At(s, pos) == s[pos + 1]

\* std::string::substr(pos, n)
Substr(s, pos, n) == SubSeq(s, pos + 1, pos + n)

\* std::string::erase(pos, n): n is clipped to the end of the string
Erase(s, pos, n) ==
    LET m == IF pos + n > Len(s) THEN Len(s) - pos ELSE n
    IN SubSeq(s, 1, pos) \o SubSeq(s, pos + m + 1, Len(s))

\* std::string::replace(pos, n, t): n is clipped to the end of the string
Replace(s, pos, n, t) ==
    LET m == IF pos + n > Len(s) THEN Len(s) - pos ELSE n
    IN SubSeq(s, 1, pos) \o t \o SubSeq(s, pos + m + 1, Len(s))

\* std::string::find(toSearch, pos): the first match at or after pos, or npos
Find(from, toSearch, pos) ==
    LET hits == {p \in pos..(Len(from) - Len(toSearch)) :
                    p >= 0 /\ Substr(from, p, Len(toSearch)) = toSearch}
    IN IF hits = {} THEN npos ELSE CHOOSE p \in hits : \A q \in hits : p <= q

\* std::string::find_last_of(c)
FindLastOf(s, c) ==
    LET hits == {p \in 0..(Len(s) - 1) : At(s, p) = c}
    IN IF hits = {} THEN npos ELSE CHOOSE p \in hits : \A q \in hits : p >= q

\* findStr with caseSensitive = true
findStr(from, toSearch, pos) == Find(from, toSearch, pos)

RECURSIVE removeAllOccurencesFrom(_, _, _)
removeAllOccurencesFrom(str, toRemove, i) ==
    LET j == findStr(str, toRemove, i)
    IN IF j = npos THEN str
       ELSE removeAllOccurencesFrom(Erase(str, j, Len(toRemove)), toRemove, j)

\* removeAllOccurences with caseSensitive = true
removeAllOccurences(str, toRemove) ==
    IF Len(str) > 0 THEN removeAllOccurencesFrom(str, toRemove, 0) ELSE str

RECURSIVE ReadInt(_, _, _)
ReadInt(str, i, acc) ==
    IF i > Len(str) \/ ~isdigit(str[i]) THEN acc
    ELSE LET d == DigitValue(str[i])
         IN IF acc > (INT_MAX - d) \div 10 THEN INT_MAX
            ELSE ReadInt(str, i + 1, acc * 10 + d)

\* stringToInt: operator>> reads the leading decimal digits; nothing readable
\* gives 0 and a value too big for int gives INT_MAX (C++11 num_get)
stringToInt(str) == ReadInt(str, 1, 0)

RECURSIVE NatToString(_)
NatToString(n) ==
    IF n < 10 THEN <<DigitChars[n + 1]>>
    ELSE NatToString(n \div 10) \o <<DigitChars[(n % 10) + 1]>>

\* stringFromInt
stringFromInt(nb) == IF nb < 0 THEN <<"-">> \o NatToString(0 - nb) ELSE NatToString(nb)

\* removePath: [path |-> the returned path, filename |-> the argument afterwards]
removePath(filename) ==
    LET slash == FindLastOf(filename, "/")
        pos == IF slash = npos THEN FindLastOf(filename, "\\") ELSE slash
    IN IF pos = npos THEN [path |-> <<>>, filename |-> filename]
       ELSE LET path == Substr(filename, 0, pos + 1)
            IN [path |-> path, filename |-> removeAllOccurences(filename, path)]

(***************************************************************************)
(* FileNameContent.                                                        *)
(***************************************************************************)
TEXT == "TEXT"
FRAME_NUMBER == "FRAME_NUMBER"

FileNameElement(data, type) == [data |-> data, type |-> type]

\* the first loop of FileNameContentPrivate::parse and the flush after it;
\* st holds orderedElements, hasSingleNumber, lastNumberStr and lastTextPart
RECURSIVE parseElements(_, _, _)
parseElements(filename, i, st) ==
    IF i < Len(filename)
    THEN LET c == At(filename, i)
         IN IF isdigit(c)
            THEN parseElements(filename, i + 1,
                   [st EXCEPT !.lastNumberStr = @ \o <<c>>,
                              !.orderedElements =
                                  IF st.lastTextPart # <<>>
                                  THEN Append(@, FileNameElement(st.lastTextPart, TEXT))
                                  ELSE @,
                              !.lastTextPart = <<>>])
            ELSE parseElements(filename, i + 1,
                   [st EXCEPT !.orderedElements =
                                  IF st.lastNumberStr # <<>>
                                  THEN Append(@, FileNameElement(st.lastNumberStr, FRAME_NUMBER))
                                  ELSE @,
                              !.hasSingleNumber =
                                  IF st.lastNumberStr # <<>> THEN ~@ ELSE @,
                              !.lastNumberStr = <<>>,
                              !.lastTextPart = @ \o <<c>>])
    ELSE LET afterNumber ==
                 IF st.lastNumberStr # <<>>
                 THEN [st EXCEPT !.orderedElements =
                                     Append(@, FileNameElement(st.lastNumberStr, FRAME_NUMBER)),
                                 !.hasSingleNumber = ~@,
                                 !.lastNumberStr = <<>>]
                 ELSE st
         IN IF afterNumber.lastTextPart # <<>>
            THEN [afterNumber EXCEPT
                     !.orderedElements =
                         Append(@, FileNameElement(afterNumber.lastTextPart, TEXT)),
                     !.lastTextPart = <<>>]
            ELSE afterNumber

\* the extension loop of FileNameContentPrivate::parse
RECURSIVE parseExtension(_, _, _)
parseExtension(filename, j, extension) ==
    IF j > 0 /\ At(filename, j) # "."
    THEN parseExtension(filename, j - 1, <<At(filename, j)>> \o extension)
    ELSE extension

\* the last loop of FileNameContentPrivate::parse
RECURSIVE buildGeneratedPattern(_, _, _, _)
buildGeneratedPattern(orderedElements, j, numberIndex, generatedPattern) ==
    IF j > Len(orderedElements) THEN generatedPattern
    ELSE LET e == orderedElements[j]
         IN IF e.type = TEXT
            THEN buildGeneratedPattern(orderedElements, j + 1, numberIndex,
                                       generatedPattern \o e.data)
            ELSE buildGeneratedPattern(orderedElements, j + 1, numberIndex + 1,
                     generatedPattern \o [k \in 1..Len(e.data) |-> "#"]
                                      \o stringFromInt(numberIndex))

\* FileNameContent::FileNameContent(absoluteFilename), i.e. parse
FileNameContent(absoluteFileName) ==
    LET split == removePath(absoluteFileName)
        filename == split.filename
        st == parseElements(filename, 0,
                  [orderedElements |-> <<>>, hasSingleNumber |-> FALSE,
                   lastNumberStr |-> <<>>, lastTextPart |-> <<>>])
    IN [absoluteFileName |-> absoluteFileName,
        filePath |-> split.path,
        filename |-> filename,
        extension |-> IF FindLastOf(filename, ".") # npos
                      THEN parseExtension(filename, Len(filename) - 1, <<>>)
                      ELSE <<>>,
        orderedElements |-> st.orderedElements,
        hasSingleNumber |-> st.hasSingleNumber,
        generatedPattern |-> buildGeneratedPattern(st.orderedElements, 1, 0, <<>>)]

\* the digit runs of a file name, in order
NumberElements(content) ==
    SelectSeq(content.orderedElements, LAMBDA e : e.type = FRAME_NUMBER)

\* FileNameContent::getNumberByIndex: numberString is left empty on failure
getNumberByIndex(content, index) ==
    LET numbers == NumberElements(content)
    IN IF index >= 0 /\ index < Len(numbers)
       THEN [ok |-> TRUE, numberString |-> numbers[index + 1].data]
       ELSE [ok |-> FALSE, numberString |-> <<>>]

\* valid with the size() > 1 test of its first branch left out
validNoLengthGuard(mine, theirs) ==
    IF Len(mine) # Len(theirs)
    THEN IF Len(mine) > Len(theirs)
         THEN IF At(theirs, 0) = "0"
              THEN FALSE
              ELSE ~(At(mine, 0) = "0")
         ELSE IF At(mine, 0) = "0" /\ Len(mine) > 1
              THEN FALSE
              ELSE ~(At(theirs, 0) = "0")
    ELSE TRUE

\* valid with the while loops over the longer string left out
validNoPrefixScan(mine, theirs) ==
    IF Len(mine) # Len(theirs)
    THEN IF Len(mine) > Len(theirs)
         THEN ~(At(theirs, 0) = "0" /\ Len(theirs) > 1)
         ELSE ~(At(mine, 0) = "0" /\ Len(mine) > 1)
    ELSE TRUE

\* the validity test of FileNameContent::matchesPattern for two different
\* digit strings: mine is this file's, theirs the other file's
valid(mine, theirs) ==
    IF Len(mine) # Len(theirs)
    THEN IF Len(mine) > Len(theirs)
         THEN IF At(theirs, 0) = "0" /\ Len(theirs) > 1
              THEN FALSE
              \* the while loop runs its body once at most (k = 0 < diff)
              ELSE ~(At(mine, 0) = "0")
         ELSE IF At(mine, 0) = "0" /\ Len(mine) > 1
              THEN FALSE
              ELSE ~(At(theirs, 0) = "0")
    ELSE TRUE

\* the first loop of FileNameContent::matchesPattern: [ok |-> FALSE] on an
\* early return, else the potentialFrameNumbers vector
RECURSIVE potentialFrameNumbersLoop(_, _, _, _, _)
potentialFrameNumbersLoop(mine, otherElements, i, numbersCount, potentialFrameNumbers) ==
    IF i > Len(mine) THEN [ok |-> TRUE, potentialFrameNumbers |-> potentialFrameNumbers]
    ELSE IF mine[i].type # otherElements[i].type THEN [ok |-> FALSE]
    ELSE IF mine[i].type = FRAME_NUMBER
    THEN potentialFrameNumbersLoop(mine, otherElements, i + 1, numbersCount + 1,
             IF mine[i].data # otherElements[i].data
                /\ valid(mine[i].data, otherElements[i].data)
             THEN Append(potentialFrameNumbers,
                         [first |-> numbersCount,
                          second |-> <<mine[i].data, otherElements[i].data>>])
             ELSE potentialFrameNumbers)
    ELSE IF mine[i].data # otherElements[i].data THEN [ok |-> FALSE]
    ELSE potentialFrameNumbersLoop(mine, otherElements, i + 1, numbersCount,
                                   potentialFrameNumbers)

Abs(x) == IF x < 0 THEN 0 - x ELSE x

\* the second loop of FileNameContent::matchesPattern with the tie branch
\* left out
RECURSIVE minIndexesLoopNoTies(_, _, _, _)
minIndexesLoopNoTies(potentialFrameNumbers, i, minimum, minIndexes) ==
    IF i >= Len(potentialFrameNumbers) THEN minIndexes
    ELSE LET thisNumber == stringToInt(potentialFrameNumbers[i + 1].second[1])
             otherNumber == stringToInt(potentialFrameNumbers[i + 1].second[2])
             diff == Abs(thisNumber - otherNumber)
         IN IF diff < minimum
            THEN minIndexesLoopNoTies(potentialFrameNumbers, i + 1, diff, <<i>>)
            ELSE minIndexesLoopNoTies(potentialFrameNumbers, i + 1, minimum, minIndexes)

\* the second loop of FileNameContent::matchesPattern: the 0-based positions
\* in potentialFrameNumbers of the pairs of minimal difference
RECURSIVE minIndexesLoop(_, _, _, _)
minIndexesLoop(potentialFrameNumbers, i, minimum, minIndexes) ==
    IF i >= Len(potentialFrameNumbers) THEN minIndexes
    ELSE LET thisNumber == stringToInt(potentialFrameNumbers[i + 1].second[1])
             otherNumber == stringToInt(potentialFrameNumbers[i + 1].second[2])
             diff == Abs(thisNumber - otherNumber)
         IN IF diff < minimum
            THEN minIndexesLoop(potentialFrameNumbers, i + 1, diff, <<i>>)
            ELSE IF diff = minimum
            THEN minIndexesLoop(potentialFrameNumbers, i + 1, minimum, Append(minIndexes, i))
            ELSE minIndexesLoop(potentialFrameNumbers, i + 1, minimum, minIndexes)

\* FileNameContent::matchesPattern(other, numberIndexesToVary), called with an
\* empty numberIndexesToVary
matchesPattern(this, other) ==
    IF Len(other.orderedElements) # Len(this.orderedElements)
    THEN [ok |-> FALSE, numberIndexesToVary |-> <<>>]
    ELSE LET scan == potentialFrameNumbersLoop(this.orderedElements,
                                               other.orderedElements, 1, 0, <<>>)
         IN IF ~scan.ok \/ scan.potentialFrameNumbers = <<>>
            THEN [ok |-> FALSE, numberIndexesToVary |-> <<>>]
            ELSE LET minIndexes == minIndexesLoop(scan.potentialFrameNumbers, 0,
                                                  INT_MAX, <<>>)
                 IN [ok |-> TRUE,
                     numberIndexesToVary |->
                         [i \in 1..Len(minIndexes) |->
                             scan.potentialFrameNumbers[minIndexes[i] + 1].first]]

\* FileNameContent::generatePatternWithFrameNumberAtIndexes, the loop over
\* orderedElements: st holds indexedPattern, lastNumberPos and numbersCount.
\* assertsHold records whether the asserts of the source hold (they are not
\* compiled into a release build); failed records that findStr found no '#',
\* after which indexedPattern.at(-1) throws std::out_of_range.
RECURSIVE indexedPatternLoop(_, _, _, _)
indexedPatternLoop(content, indexes, i, st) ==
    IF i > Len(content.orderedElements) \/ st.failed THEN st
    ELSE IF content.orderedElements[i].type # FRAME_NUMBER
    THEN indexedPatternLoop(content, indexes, i + 1, st)
    ELSE LET lastNumberPos == findStr(st.indexedPattern, <<"#">>, st.lastNumberPos)
         IN IF lastNumberPos = npos
            THEN [st EXCEPT !.failed = TRUE]
            ELSE LET hashes == CHOOSE n \in 0..Len(st.indexedPattern) :
                                 /\ \A k \in 0..(n - 1) :
                                        /\ lastNumberPos + k < Len(st.indexedPattern)
                                        /\ At(st.indexedPattern, lastNumberPos + k) = "#"
                                 /\ \/ lastNumberPos + n >= Len(st.indexedPattern)
                                    \/ At(st.indexedPattern, lastNumberPos + n) # "#"
                     endTagPos == lastNumberPos + hashes
                     isNumberAFrameNumber ==
                         \E j \in 1..Len(indexes) : indexes[j] = st.numbersCount
                     tagEndsWithDigit ==
                         endTagPos >= Len(st.indexedPattern)
                         \/ isdigit(At(st.indexedPattern, endTagPos))
                     replaced ==
                         IF ~isNumberAFrameNumber
                         THEN Replace(st.indexedPattern, lastNumberPos,
                                      endTagPos - lastNumberPos + 1,
                                      content.orderedElements[i].data)
                         ELSE IF endTagPos < Len(st.indexedPattern)
                         THEN Erase(st.indexedPattern, endTagPos, 1)
                         ELSE st.indexedPattern
                 IN indexedPatternLoop(content, indexes, i + 1,
                        [indexedPattern |-> replaced,
                         lastNumberPos |-> endTagPos,
                         numbersCount |-> st.numbersCount + 1,
                         assertsHold |-> st.assertsHold /\ tagEndsWithDigit,
                         failed |-> FALSE])

\* FileNameContent::generatePatternWithFrameNumberAtIndexes(indexes, pattern):
\* pattern is left untouched (empty here) when it returns false
generatePatternWithFrameNumberAtIndexes(content, indexes) ==
    LET st == indexedPatternLoop(content, indexes, 1,
                  [indexedPattern |-> content.generatedPattern, lastNumberPos |-> 0,
                   numbersCount |-> 0, assertsHold |-> TRUE, failed |-> FALSE])
    IN IF st.failed
       THEN [ok |-> FALSE, pattern |-> <<>>, assertsHold |-> FALSE, threw |-> TRUE]
       ELSE IF \E i \in 1..Len(indexes) : indexes[i] >= st.numbersCount
       THEN [ok |-> FALSE, pattern |-> <<>>, assertsHold |-> st.assertsHold,
             threw |-> FALSE]
       ELSE [ok |-> TRUE, pattern |-> content.filePath \o st.indexedPattern,
             assertsHold |-> st.assertsHold, threw |-> FALSE]

(***************************************************************************)
(* SequenceFromFiles.                                                      *)
(***************************************************************************)
\* std::map::insert: an existing key keeps its value
MapInsert(m, k, v) ==
    IF k \in DOMAIN m THEN m
    ELSE [x \in DOMAIN m \cup {k} |-> IF x = k THEN v ELSE m[x]]

EmptyMap == [x \in {} |-> <<>>]

\* totalSize += f.tellg(): totalSize is an unsigned long long and tellg() is
\* -1 when the file cannot be opened; the sum is kept as the signed integer
\* congruent to the unsigned value modulo 2^64
AddSize(S, tellg) ==
    IF S.sizeEstimationEnabled THEN [S EXCEPT !.totalSize = @ + tellg] ELSE S

\* tryInsertFile, the loop over the baseline's frame numbers (second member):
\* returned tells that the loop left the function with return false
RECURSIVE firstFrameLoop(_, _, _, _, _)
firstFrameLoop(S, file, frameNumberIndexes, i, firstFrameNumberStr) ==
    IF i >= Len(frameNumberIndexes) THEN [S |-> S, returned |-> FALSE]
    ELSE LET got == getNumberByIndex(S.sequence[1], S.frameNumberStringIndexes[i + 1])
             frameNumberStr == got.numberString
         IN IF got.ok /\ firstFrameNumberStr = <<>>
            THEN firstFrameLoop(
                     [S EXCEPT !.filesMap = MapInsert(@, stringToInt(frameNumberStr),
                                                      file.absoluteFileName)],
                     file, frameNumberIndexes, i + 1, frameNumberStr)
            ELSE IF firstFrameNumberStr # <<>>
                    /\ stringToInt(frameNumberStr) # stringToInt(firstFrameNumberStr)
            THEN [S |-> S, returned |-> TRUE]
            ELSE firstFrameLoop(S, file, frameNumberIndexes, i + 1, firstFrameNumberStr)

\* tryInsertFile, the loop under if (insert)
RECURSIVE insertLoop(_, _, _, _, _, _)
insertLoop(S, file, frameNumberIndexes, i, firstFrameNumberStr, tellg) ==
    IF i >= Len(frameNumberIndexes) THEN [S |-> S, returned |-> FALSE]
    ELSE LET got == getNumberByIndex(file, S.frameNumberStringIndexes[i + 1])
             frameNumberStr == got.numberString
         IN IF got.ok /\ firstFrameNumberStr = <<>>
            THEN insertLoop(
                     AddSize([S EXCEPT
                                 !.sequence = Append(@, file),
                                 !.filesList = Append(@, file.absoluteFileName),
                                 !.filesMap = MapInsert(@, stringToInt(frameNumberStr),
                                                        file.absoluteFileName)],
                             tellg),
                     file, frameNumberIndexes, i + 1, frameNumberStr, tellg)
            ELSE IF firstFrameNumberStr # <<>>
                    /\ stringToInt(frameNumberStr) # stringToInt(firstFrameNumberStr)
            THEN [S |-> S, returned |-> TRUE]
            ELSE insertLoop(S, file, frameNumberIndexes, i + 1, firstFrameNumberStr, tellg)

\* no file is listed twice: the std::find test dropped
alreadyListedNever(S, file) == FALSE

\* tryInsertFile: std::find(filesList.begin(), filesList.end(),
\* file.absoluteFileName()) != filesList.end()
alreadyListed(S, file) ==
    \E k \in 1..Len(S.filesList) : S.filesList[k] = file.absoluteFileName

\* the frame slots are taken from every matching file
frameSlotsUndeterminedAlways(S) == TRUE

\* tryInsertFile: frameNumberStringIndexes.empty(), the test for the second file
frameSlotsUndetermined(S) == S.frameNumberStringIndexes = <<>>

\* SequenceFromFiles::tryInsertFile(file) on the aggregate S; tellg is what
\* f.tellg() gives for the file.  [S |-> the aggregate afterwards, ret |-> the
\* value returned]
tryInsertFile(S, file, tellg) ==
    IF S.filesList = <<>>
    THEN [S |-> AddSize([S EXCEPT !.sequence = Append(@, file),
                                  !.filesList = Append(@, file.absoluteFileName)],
                        tellg),
          ret |-> TRUE]
    ELSE IF file.filePath # S.sequence[1].filePath
    THEN [S |-> S, ret |-> FALSE]
    ELSE LET m == matchesPattern(file, S.sequence[1])
             frameNumberIndexes == m.numberIndexesToVary
         IN IF ~m.ok
            THEN [S |-> S, ret |-> FALSE]
            ELSE IF alreadyListed(S, file)
            THEN [S |-> S, ret |-> FALSE]
            ELSE IF frameSlotsUndetermined(S)
            THEN LET S1 == [S EXCEPT !.frameNumberStringIndexes = frameNumberIndexes]
                     l1 == firstFrameLoop(S1, file, frameNumberIndexes, 0, <<>>)
                 IN IF l1.returned
                    THEN [S |-> l1.S, ret |-> FALSE]
                    ELSE LET l2 == insertLoop(l1.S, file, frameNumberIndexes, 0, <<>>, tellg)
                         IN [S |-> l2.S, ret |-> ~l2.returned]
            ELSE IF frameNumberIndexes = S.frameNumberStringIndexes
            THEN LET l2 == insertLoop(S, file, frameNumberIndexes, 0, <<>>, tellg)
                 IN [S |-> l2.S, ret |-> ~l2.returned]
            ELSE [S |-> S, ret |-> FALSE]

\* SequenceFromFilesPrivate::isInSequence
isInSequence(S, index) == index \in DOMAIN S.filesMap

\* SequenceFromFiles::count
count(S) == Len(S.filesList)

\* SequenceFromFiles::isSingleFile
isSingleFile(S) == Len(S.sequence) = 1

\* SequenceFromFiles::generateValidSequencePattern
generateValidSequencePattern(S) ==
    IF S.filesList = <<>> THEN <<>>
    ELSE IF isSingleFile(S) THEN S.sequence[1].absoluteFileName
    ELSE generatePatternWithFrameNumberAtIndexes(S.sequence[1],
                                                 S.frameNumberStringIndexes).pattern

\* the aggregate held in the variables
Self ==
    [sequence |-> sequence, filesList |-> filesList, filesMap |-> filesMap,
     frameNumberStringIndexes |-> frameNumberStringIndexes,
     totalSize |-> totalSize, sizeEstimationEnabled |-> sizeEstimationEnabled]

\* SequenceFromFilesPrivate::SequenceFromFilesPrivate(enableSizeEstimation)
SequenceFromFilesPrivate(enableSizeEstimation) ==
    [sequence |-> <<>>, filesList |-> <<>>, filesMap |-> EmptyMap,
     frameNumberStringIndexes |-> <<>>, totalSize |-> 0,
     sizeEstimationEnabled |-> enableSizeEstimation]

\* SequenceFromFiles::SequenceFromFiles(firstFile, enableSizeEstimation)
SequenceFromFiles(firstFile, enableSizeEstimation, tellg) ==
    LET S == SequenceFromFilesPrivate(enableSizeEstimation)
    IN AddSize([S EXCEPT !.sequence = Append(@, firstFile),
                         !.filesList = Append(@, firstFile.absoluteFileName)],
               tellg)

Holds(S) ==
    /\ sequence = S.sequence
    /\ filesList = S.filesList
    /\ filesMap = S.filesMap
    /\ frameNumberStringIndexes = S.frameNumberStringIndexes
    /\ totalSize = S.totalSize
    /\ sizeEstimationEnabled = S.sizeEstimationEnabled

(***************************************************************************)
(* The files offered to the aggregator.                                    *)
(***************************************************************************)
Digits(n) == {DigitChars[i + 1] : i \in 0..n}

\* the byte length of every file that can be opened
FileBytes == 4

\* what f.tellg() can give: the byte length, or -1 when the open failed
TellgResults == {FileBytes, -1}

Dirs == {<<>>, <<"d", "/">>}

\* file names with one digit run, and with two digit runs around a text
Names ==
    {<<d>> : d \in Digits(MaxDigit)}
    \cup {<<d1, "a", d2>> : d1 \in Digits(MaxDigit), d2 \in Digits(MaxDigit)}

Files == {dir \o name : dir \in Dirs, name \in Names}

\* the FileNameContent objects of these files, built once
Contents == [f \in Files |-> FileNameContent(f)]

(***************************************************************************)
(* Spec: an aggregator that is offered files one after the other.          *)
(***************************************************************************)
\* the aggregator as one of its two constructors leaves it
Constructed(enable) ==
    /\ \/ Holds(SequenceFromFilesPrivate(enable))
       \/ \E f \in Files, tellg \in (IF enable THEN TellgResults ELSE {0}) :
              Holds(SequenceFromFiles(Contents[f], enable, tellg))
    /\ op = "SequenceFromFiles"
    /\ ret = TRUE
    /\ args = <<>>
    /\ out = <<>>

Init == Constructed(FALSE)

TryInsertFile(f, tellg) ==
    /\ LET r == tryInsertFile(Self, Contents[f], tellg)
       IN /\ Len(r.S.sequence) <= MaxMembers
          /\ sequence' = r.S.sequence
          /\ filesList' = r.S.filesList
          /\ filesMap' = r.S.filesMap
          /\ frameNumberStringIndexes' = r.S.frameNumberStringIndexes
          /\ totalSize' = r.S.totalSize
          /\ ret' = r.ret
    /\ op' = "tryInsertFile"
    /\ args' = <<f \in Range(filesList)>>
    /\ UNCHANGED <<sizeEstimationEnabled, out>>

Next ==
    \E f \in Files, tellg \in (IF sizeEstimationEnabled THEN TellgResults ELSE {0}) :
        TryInsertFile(f, tellg)

Spec == Init /\ [][Next]_vars

(***************************************************************************)
(* SpecPair: two files are offered to an empty aggregator and the pattern  *)
(* of the sequence is generated.                                           *)
(***************************************************************************)
PairNames == StringsUpTo(Digits(MaxDigit) \cup {"a", "#"}, PairMaxLen)

PairFiles == {dir \o name : dir \in Dirs, name \in PairNames}

PairContents == [f \in PairFiles |-> FileNameContent(f)]

InitPair ==
    /\ Holds(SequenceFromFilesPrivate(FALSE))
    /\ op = "SequenceFromFiles"
    /\ ret = TRUE
    /\ args \in PairFiles \X PairFiles
    /\ out = <<>>

\* tryInsertFile(args[1]) on the empty aggregator, then tryInsertFile(args[2])
InsertPairFile ==
    /\ Len(out) < 2
    /\ op = IF out = <<>> THEN "SequenceFromFiles" ELSE "tryInsertFile"
    /\ LET r == tryInsertFile(Self, PairContents[args[Len(out) + 1]], 0)
       IN /\ sequence' = r.S.sequence
          /\ filesList' = r.S.filesList
          /\ filesMap' = r.S.filesMap
          /\ frameNumberStringIndexes' = r.S.frameNumberStringIndexes
          /\ totalSize' = r.S.totalSize
          /\ ret' = r.ret
          /\ out' = Append(out, r.ret)
    /\ op' = "tryInsertFile"
    /\ UNCHANGED <<sizeEstimationEnabled, args>>

GenerateValidSequencePattern ==
    /\ Len(out) = 2
    /\ op = "tryInsertFile"
    /\ out' = Append(out, generateValidSequencePattern(Self))
    /\ op' = "generateValidSequencePattern"
    /\ UNCHANGED <<aggregate, sizeEstimationEnabled, ret, args>>

NextPair == InsertPairFile \/ GenerateValidSequencePattern

SpecPair == InitPair /\ [][NextPair]_vars

(***************************************************************************)
(* SpecMatch: FileNameContent::matchesPattern on two file names, called in *)
(* one direction and then in the other.                                    *)
(***************************************************************************)
MatchNames == StringsUpTo(Digits(MaxDigit) \cup {"a"}, MatchMaxLen)

MatchContents == [f \in MatchNames |-> FileNameContent(f)]

InitMatch ==
    /\ Holds(SequenceFromFilesPrivate(FALSE))
    /\ op = "FileNameContent"
    /\ ret = TRUE
    /\ args \in MatchNames \X MatchNames
    /\ out = <<>>

\* args[1].matchesPattern(args[2]), then args[2].matchesPattern(args[1])
MatchesPattern ==
    /\ op = "FileNameContent"
    /\ LET m == matchesPattern(MatchContents[args[1]], MatchContents[args[2]])
           reversed == matchesPattern(MatchContents[args[2]], MatchContents[args[1]])
       IN /\ out' = <<m, reversed>>
          /\ ret' = reversed.ok
    /\ op' = "matchesPattern"
    /\ UNCHANGED <<aggregate, sizeEstimationEnabled, args>>

NextMatch == MatchesPattern

SpecMatch == InitMatch /\ [][NextMatch]_vars

(***************************************************************************)
(* Claims about FileNameContent::matchesPattern (SpecMatch).               *)
(***************************************************************************)
\* the two files have the same element kinds in the same order and the same
\* text elements
SameShapeAndText(a, b) ==
    /\ Len(a.orderedElements) = Len(b.orderedElements)
    /\ \A i \in 1..Len(a.orderedElements) :
         /\ a.orderedElements[i].type = b.orderedElements[i].type
         /\ a.orderedElements[i].type = TEXT
              => a.orderedElements[i].data = b.orderedElements[i].data

\* the ordinals of the digit runs that differ and pass the validity test
AcceptedCandidates(a, b) ==
    LET na == NumberElements(a)
        nb == NumberElements(b)
    IN {k \in 0..(Len(na) - 1) :
           na[k + 1].data # nb[k + 1].data /\ valid(na[k + 1].data, nb[k + 1].data)}

RunDifference(a, b, k) ==
    Abs(stringToInt(NumberElements(a)[k + 1].data)
        - stringToInt(NumberElements(b)[k + 1].data))

MinimalCandidates(a, b) ==
    LET candidates == AcceptedCandidates(a, b)
        difference == [k \in candidates |-> RunDifference(a, b, k)]
    IN {k \in candidates : \A j \in candidates : difference[k] <= difference[j]}

\* C9: matchesPattern is symmetric: A.matchesPattern(B) and B.matchesPattern(A)
\* return the same boolean, and when they return true the same set of digit-run
\* ordinals.
C9_MatchesPatternSymmetric ==
    op = "matchesPattern" =>
        /\ out[1].ok = out[2].ok
        /\ out[1].ok => Range(out[1].numberIndexesToVary) = Range(out[2].numberIndexesToVary)

\* both directions have run on two names of different length that match
C9_Witness ==
    /\ op = "matchesPattern"
    /\ out[1].ok /\ out[2].ok
    /\ Len(args[1]) # Len(args[2])

\* C10: matchesPattern returns true exactly when the two files have the same
\* shape and text and some digit run is an accepted differing candidate; the
\* ordinals it then returns are exactly the accepted candidates of minimal
\* absolute difference, each once.
C10_ReturnsAllMinimalCandidates ==
    op = "matchesPattern" =>
        LET a == MatchContents[args[1]]
            b == MatchContents[args[2]]
            minimal == MinimalCandidates(a, b)
        IN /\ out[1].ok <=> (SameShapeAndText(a, b) /\ AcceptedCandidates(a, b) # {})
           /\ out[1].ok =>
                /\ Range(out[1].numberIndexesToVary) = minimal
                /\ Len(out[1].numberIndexesToVary) = Cardinality(minimal)

\* matchesPattern has returned true on two accepted candidates of different
\* difference: the second run is kept and the first is dropped
C10_Witness ==
    /\ op = "matchesPattern"
    /\ out[1].ok
    /\ Cardinality(AcceptedCandidates(MatchContents[args[1]], MatchContents[args[2]])) = 2
    /\ out[1].numberIndexesToVary = <<1>>

(***************************************************************************)
(* Claims about SequenceFromFiles::tryInsertFile (Spec).                   *)
(***************************************************************************)
\* the frame number of a file: the integer value of its digit run at the
\* first frame slot
FrameNumber(content, indexes) ==
    stringToInt(getNumberByIndex(content, indexes[1]).numberString)

NoDuplicates(list) ==
    \A i, j \in 1..Len(list) : list[i] = list[j] => i = j

\* C1: whenever tryInsertFile returns false, the member list, the file list,
\* the frame-to-path map and the frame slot indexes are what they were before
\* the call.
C1_RejectedCallChangesNothing ==
    [][(op' = "tryInsertFile" /\ ret' = FALSE)
          => UNCHANGED <<sequence, filesList, filesMap, frameNumberStringIndexes>>]_vars

\* C2: every entry (k -> p) of the frame-to-path map has p equal to the
\* absolute path of a member whose digit run at a frame slot has the integer
\* value k.
C2_FrameMapsToTheFileOfThatFrame ==
    \A k \in DOMAIN filesMap :
        \E i \in 1..Len(sequence) :
            /\ sequence[i].absoluteFileName = filesMap[k]
            /\ \E j \in 1..Len(frameNumberStringIndexes) :
                 LET got == getNumberByIndex(sequence[i], frameNumberStringIndexes[j])
                 IN got.ok /\ stringToInt(got.numberString) = k

\* C3: with at least two members and the frame slots fixed, tryInsertFile of a
\* file whose frame number is the frame number of a member returns false and
\* adds nothing; hence no two members share a frame number and count() is the
\* number of keys of the frame-to-path map.
C3_DuplicateFrameNumberRejected ==
    [][/\ \A f \in Files, tellg \in TellgResults \cup {0} :
            (/\ TryInsertFile(f, tellg)
             /\ Len(sequence) >= 2
             /\ frameNumberStringIndexes # <<>>
             /\ \E i \in 1..Len(sequence) :
                    FrameNumber(sequence[i], frameNumberStringIndexes)
                        = FrameNumber(Contents[f], frameNumberStringIndexes))
            => (ret' = FALSE /\ UNCHANGED <<sequence, filesList, filesMap>>)
       /\ (Len(sequence') >= 2 /\ frameNumberStringIndexes' # <<>>)
            => /\ \A i, j \in 1..Len(sequence') :
                    FrameNumber(sequence'[i], frameNumberStringIndexes')
                        = FrameNumber(sequence'[j], frameNumberStringIndexes') => i = j
               /\ Len(filesList') = Cardinality(DOMAIN filesMap')
      ]_vars

\* C4: tryInsertFile of a file whose absolute path is already in the file list
\* returns false, and no absolute path is twice in the file list.
C4_NoPathTwice ==
    /\ (op = "tryInsertFile" /\ args = <<TRUE>>) => ret = FALSE
    /\ NoDuplicates(filesList)

\* a file of the list has been offered again to a sequence of three members
C4_Witness ==
    /\ op = "tryInsertFile"
    /\ args = <<TRUE>>
    /\ ret = FALSE
    /\ Len(filesList) = 3

\* C5: once frameNumberStringIndexes is not empty, no call of tryInsertFile
\* changes it.
C5_FrameSlotsNeverChange ==
    [][frameNumberStringIndexes # <<>>
          => frameNumberStringIndexes' = frameNumberStringIndexes]_vars

\* a third member has been accepted after the frame slots were fixed
C5_Witness ==
    /\ op = "tryInsertFile"
    /\ ret = TRUE
    /\ Len(sequence) = 3
    /\ frameNumberStringIndexes # <<>>

\* C6: frameNumberStringIndexes is not empty if and only if the sequence has
\* at least two members.
C6_FrameSlotsFixedIffTwoMembers ==
    (frameNumberStringIndexes # <<>>) <=> (Len(sequence) >= 2)

\* C7: every member has the baseline's shape and text elements, and its digit
\* runs at the ordinals that are no frame slot are the baseline's.
C7_MembersDifferOnlyAtFrameSlots ==
    \A i \in 2..Len(sequence) :
        /\ SameShapeAndText(sequence[i], sequence[1])
        /\ \A k \in 0..(Len(NumberElements(sequence[1])) - 1) :
             k \notin Range(frameNumberStringIndexes)
               => NumberElements(sequence[i])[k + 1].data
                    = NumberElements(sequence[1])[k + 1].data

(***************************************************************************)
(* Claim about the pattern of a two-file sequence (SpecPair).              *)
(***************************************************************************)
\* the ordinals of the digit runs in which two files of the same shape differ
DifferingRuns(a, b) ==
    {k \in 0..(Len(NumberElements(a)) - 1) :
        NumberElements(a)[k + 1].data # NumberElements(b)[k + 1].data}

\* same directory, same text elements, exactly one digit run differs and the
\* two runs have the same length
DifferInOneRunOfSameLength(a, b) ==
    /\ a.filePath = b.filePath
    /\ SameShapeAndText(a, b)
    /\ Cardinality(DifferingRuns(a, b)) = 1
    /\ \A k \in DifferingRuns(a, b) :
         Len(NumberElements(a)[k + 1].data) = Len(NumberElements(b)[k + 1].data)

\* the file name with the digit run of ordinal k replaced by '#' repeated its
\* length and every other element kept
RECURSIVE NameWithRunHashed(_, _, _, _)
NameWithRunHashed(orderedElements, i, numbersCount, k) ==
    IF i > Len(orderedElements) THEN <<>>
    ELSE LET e == orderedElements[i]
         IN IF e.type = FRAME_NUMBER
            THEN (IF numbersCount = k THEN [j \in 1..Len(e.data) |-> "#"] ELSE e.data)
                 \o NameWithRunHashed(orderedElements, i + 1, numbersCount + 1, k)
            ELSE e.data \o NameWithRunHashed(orderedElements, i + 1, numbersCount, k)

\* C8: for two files of one directory with the same text elements that differ
\* in exactly one digit run of the same length, both tryInsertFile calls return
\* true, the frame slots are exactly that run's ordinal, and
\* generateValidSequencePattern returns the baseline's path and file name with
\* only that run replaced by '#' repeated its length.
C8_PatternOfTwoFiles ==
    LET a == PairContents[args[1]]
        b == PairContents[args[2]]
    IN (op = "generateValidSequencePattern" /\ DifferInOneRunOfSameLength(a, b))
         => \A k \in DifferingRuns(a, b) :
              /\ out[1] = TRUE
              /\ out[2] = TRUE
              /\ frameNumberStringIndexes = <<k>>
              /\ out[3] = a.filePath \o NameWithRunHashed(a.orderedElements, 1, 0, k)

\* C8 for file names without '#'
C8_PatternOfTwoFilesWithoutHash ==
    ("#" \notin Range(args[1])) => C8_PatternOfTwoFiles

(***************************************************************************)
(* SpecJoin: an aggregator seeded by one file is offered a second file     *)
(* whose digit run has another length or padding.                          *)
(***************************************************************************)
file01 == <<"f", "i", "l", "e", "0", "1", ".", "p", "n", "g">>

file010000 == <<"f", "i", "l", "e", "0", "1", "0", "0", "0", "0", ".", "p", "n", "g">>

file10000 == <<"f", "i", "l", "e", "1", "0", "0", "0", "0", ".", "p", "n", "g">>

\* "f" followed by one run of the digits 0 and 1, and the three files above
JoinNames ==
    {<<"f">> \o run : run \in StringsUpTo({"0", "1"}, JoinMaxRun)}
    \cup {file01, file010000, file10000}

JoinContents == [f \in JoinNames |-> FileNameContent(f)]

\* SequenceFromFiles(args[1], false)
InitJoin ==
    /\ \E f \in JoinNames, g \in JoinNames :
          /\ Holds(SequenceFromFiles(JoinContents[f], FALSE, 0))
          /\ args = <<f, g>>
    /\ op = "SequenceFromFiles"
    /\ ret = TRUE
    /\ out = <<>>

\* args[2].matchesPattern(args[1]), args[1].matchesPattern(args[2]), then
\* tryInsertFile(args[2])
TryInsertJoin ==
    /\ op = "SequenceFromFiles"
    /\ LET r == tryInsertFile(Self, JoinContents[args[2]], 0)
       IN /\ sequence' = r.S.sequence
          /\ filesList' = r.S.filesList
          /\ filesMap' = r.S.filesMap
          /\ frameNumberStringIndexes' = r.S.frameNumberStringIndexes
          /\ totalSize' = r.S.totalSize
          /\ ret' = r.ret
    /\ out' = <<matchesPattern(JoinContents[args[2]], JoinContents[args[1]]).ok,
                matchesPattern(JoinContents[args[1]], JoinContents[args[2]]).ok>>
    /\ op' = "tryInsertFile"
    /\ UNCHANGED <<sizeEstimationEnabled, args>>

NextJoin == TryInsertJoin

SpecJoin == InitJoin /\ [][NextJoin]_vars

\* the only digit run of name
OnlyRun(name) == NumberElements(JoinContents[name])[1].data

\* C11: a file whose only differing digit run is longer than the baseline's
\* and starts with a 0 does not join: matchesPattern returns false in both
\* directions and tryInsertFile returns false, leaving the baseline alone in
\* the sequence; so it is for file01.png and file010000.png.
C11_PaddedLongerRunDoesNotJoin ==
    (/\ op = "tryInsertFile"
     /\ Len(OnlyRun(args[2])) > Len(OnlyRun(args[1]))
     /\ At(OnlyRun(args[2]), 0) = "0")
        => /\ out = <<FALSE, FALSE>>
           /\ ret = FALSE
           /\ filesList = <<args[1]>>

\* file010000.png has been offered to the sequence seeded by file01.png
C11_Witness ==
    /\ op = "tryInsertFile"
    /\ args = <<file01, file010000>>
    /\ ret = FALSE

\* the text around the only digit run of name
TextAround(name) ==
    SelectSeq(JoinContents[name].orderedElements, LAMBDA e : e.type # FRAME_NUMBER)

\* C27: two names that differ in their run only, the runs differing in
\* length, are candidates of one sequence when the longer run does not start
\* with a 0, even if the shorter run is zero-padded: matchesPattern returns
\* true in both directions, as for file01.png and file10000.png.
C27_LongerBiggerNumberAccepted ==
    (/\ op = "tryInsertFile"
     /\ TextAround(args[1]) = TextAround(args[2])
     /\ Len(OnlyRun(args[2])) > Len(OnlyRun(args[1]))
     /\ At(OnlyRun(args[2]), 0) # "0")
        => out = <<TRUE, TRUE>>

(***************************************************************************)
(* SpecParse: one file name is tokenized, then a pattern is generated from *)
(* it for a vector of digit-run ordinals.                                  *)
(***************************************************************************)
\* a file name with eleven digit runs
elevenRuns ==
    <<"0", "a", "1", "a", "2", "a", "3", "a", "4", "a", "5", "a", "6", "a",
      "7", "a", "8", "a", "9", "a", "5">>

\* a file name with a directory
inDirectory == <<"d", "/", "1", "a", "1">>

ParseNames ==
    StringsUpTo({"1", "a", "#", "."}, ParseMaxLen) \cup {elevenRuns, inDirectory}

ParseContents == [f \in ParseNames |-> FileNameContent(f)]

\* the vectors of ordinals asked for: ascending, one past the most runs a
\* generated name can have included
RECURSIVE Ascending(_)
Ascending(S) ==
    IF S = {} THEN <<>>
    ELSE LET least == CHOOSE x \in S : \A y \in S : x <= y
         IN <<least>> \o Ascending(S \ {least})

IndexVectors == {Ascending(S) : S \in SUBSET (0..((ParseMaxLen + 1) \div 2))}

InitParse ==
    /\ Holds(SequenceFromFilesPrivate(FALSE))
    /\ op = "main"
    /\ ret = TRUE
    /\ args \in {<<f>> : f \in ParseNames}
    /\ out = <<>>

\* FileNameContent(args[1])
ParseFileName ==
    /\ op = "main"
    /\ out' = <<ParseContents[args[1]]>>
    /\ op' = "FileNameContent"
    /\ UNCHANGED <<aggregate, sizeEstimationEnabled, ret, args>>

\* out[1].generatePatternWithFrameNumberAtIndexes(indexes, &pattern)
GeneratePatternWithFrameNumberAtIndexes(indexes) ==
    /\ op = "FileNameContent"
    /\ LET r == generatePatternWithFrameNumberAtIndexes(out[1], indexes)
       IN /\ out' = <<out[1], r>>
          /\ ret' = r.ok
    /\ args' = <<args[1], indexes>>
    /\ op' = "generatePatternWithFrameNumberAtIndexes"
    /\ UNCHANGED <<aggregate, sizeEstimationEnabled>>

NextParse ==
    \/ ParseFileName
    \/ \E indexes \in IndexVectors : GeneratePatternWithFrameNumberAtIndexes(indexes)

SpecParse == InitParse /\ [][NextParse]_vars

\* the positions (1-based) at which a maximal digit run of name starts
DigitRunStarts(name) ==
    {i \in 1..Len(name) : isdigit(name[i]) /\ (i = 1 \/ ~isdigit(name[i - 1]))}

\* C12: hasSingleNumber() is true if and only if the file name contains
\* exactly one maximal digit run.
C12_HasSingleNumberIffOneRun ==
    op = "FileNameContent" =>
        (out[1].hasSingleNumber <=> Cardinality(DigitRunStarts(args[1])) = 1)

\* the file name with every digit of the runs whose ordinal is in S replaced
\* by '#'
NameWithRunsHashed(name, S) ==
    [i \in 1..Len(name) |->
        IF isdigit(name[i])
           /\ (Cardinality({j \in DigitRunStarts(name) : j <= i}) - 1) \in S
        THEN "#" ELSE name[i]]

\* C13: with every requested ordinal smaller than the number of digit runs,
\* generatePatternWithFrameNumberAtIndexes returns true and yields the path
\* and file name with exactly the requested runs replaced by '#' repeated
\* their length (the absolute file name for no ordinal at all); it returns
\* false as soon as one requested ordinal is not smaller.
C13_PatternAbstractsRequestedRuns ==
    op = "generatePatternWithFrameNumberAtIndexes" =>
        LET runs == Cardinality(DigitRunStarts(args[1]))
        IN IF \A j \in 1..Len(args[2]) : args[2][j] < runs
           THEN /\ ret = TRUE
                /\ out[2].pattern = NameWithRunsHashed(args[1], Range(args[2]))
           ELSE ret = FALSE

\* C13 for file names without '#' and with at most ten digit runs
C13_PatternAbstractsRequestedRunsOfPlainNames ==
    ("#" \notin Range(args[1]) /\ args[1] # elevenRuns)
        => C13_PatternAbstractsRequestedRuns

(***************************************************************************)
(* SequenceFromFiles::generateUserFriendlySequencePattern.                 *)
(***************************************************************************)
\* SequenceFromFiles::getFirstFrame
getFirstFrame(S) ==
    IF DOMAIN S.filesMap = {} THEN INT_MIN
    ELSE CHOOSE k \in DOMAIN S.filesMap : \A j \in DOMAIN S.filesMap : k <= j

\* SequenceFromFiles::getLastFrame
getLastFrame(S) ==
    IF DOMAIN S.filesMap = {} THEN INT_MAX
    ELSE CHOOSE k \in DOMAIN S.filesMap : \A j \in DOMAIN S.filesMap : k >= j

\* the loop that skips nothing
holeLoopStays(S, first, breakCounter) == [first |-> first, breakCounter |-> breakCounter]

\* the loop that skips the frames that are not in the sequence: it stops at
\* the first frame of the sequence from first on when fewer than
\* NATRON_DIALOG_MAX_SEQUENCES_HOLE frames come before it, else after
\* NATRON_DIALOG_MAX_SEQUENCES_HOLE steps
holeLoop(S, first, breakCounter) ==
    LET left == NATRON_DIALOG_MAX_SEQUENCES_HOLE - breakCounter
        ahead == {k \in DOMAIN S.filesMap : first <= k /\ k < first + left}
        steps == IF ahead = {} THEN left
                 ELSE (CHOOSE k \in ahead : \A j \in ahead : k <= j) - first
    IN [first |-> first + steps, breakCounter |-> breakCounter + steps]

\* the loop that walks over consecutive frames of the sequence
RECURSIVE chunkLoop(_, _, _, _)
chunkLoop(S, next, prev, counted) ==
    IF next <= getLastFrame(S) /\ isInSequence(S, next) /\ next = prev + 1
    THEN chunkLoop(S, next + 1, next, counted + 1)
    ELSE [next |-> next, count |-> counted]

\* the outer loop: the chunks found from first on
RECURSIVE chunksLoop(_, _, _)
chunksLoop(S, first, chunks) ==
    IF first <= getLastFrame(S)
    THEN LET hole == holeLoop(S, first, 0)
         IN IF hole.breakCounter >= NATRON_DIALOG_MAX_SEQUENCES_HOLE
            THEN chunks
            ELSE LET run == chunkLoop(S, hole.first + 1, hole.first, 1)
                 IN chunksLoop(S, hole.first + run.count,
                               Append(chunks, <<hole.first, run.next - 1>>))
    ELSE chunks

\* the loop that renders several chunks
RECURSIVE renderChunks(_, _, _)
renderChunks(chunks, i, pattern) ==
    IF i >= Len(chunks) THEN pattern
    ELSE LET chunk == chunks[i + 1]
             range == IF chunk[1] # chunk[2]
                      THEN <<" ">> \o stringFromInt(chunk[1]) \o <<"-">>
                           \o stringFromInt(chunk[2])
                      ELSE <<" ">> \o stringFromInt(chunk[1])
             separator == IF i < Len(chunks) - 1 THEN <<" ", "/">> ELSE <<>>
         IN renderChunks(chunks, i + 1, pattern \o range \o separator)

\* SequenceFromFiles::generateUserFriendlySequencePattern: the string it
\* returns and the chunks it found
generateUserFriendlySequencePattern(S) ==
    IF isSingleFile(S)
    THEN [pattern |-> S.sequence[1].filename, chunks |-> <<>>]
    ELSE LET pattern == removePath(generateValidSequencePattern(S)).filename
             chunks == chunksLoop(S, getFirstFrame(S), <<>>)
         IN [pattern |->
                IF Len(chunks) = 1
                THEN pattern \o <<" ">> \o stringFromInt(chunks[1][1]) \o <<"-">>
                     \o stringFromInt(chunks[1][2])
                ELSE renderChunks(chunks, 0, pattern \o <<" ", "(", " ">>)
                     \o <<" ", ")", " ">>,
             chunks |-> chunks]

(***************************************************************************)
(* SpecFriendly: the files of a directory listing are offered in order to  *)
(* an empty aggregator, then the user-friendly pattern is generated.       *)
(***************************************************************************)
\* the frame numbers of the files that may be listed
FriendlyFrames ==
    {1, 2, 3, 7, 8, 9}
    \cup {NATRON_DIALOG_MAX_SEQUENCES_HOLE + k : k \in 1..3}

\* the file of frame n
FrameFile(n) == <<"f">> \o stringFromInt(n)

FriendlyContents == [n \in FriendlyFrames |-> FileNameContent(FrameFile(n))]

\* args[1] is the listing (frame numbers, ascending), args[2] the number of
\* entries offered so far
InitFriendly ==
    /\ Holds(SequenceFromFilesPrivate(FALSE))
    /\ op = "SequenceFromFiles"
    /\ ret = TRUE
    /\ args \in {<<Ascending(S), 0>> : S \in SUBSET FriendlyFrames \ {{}}}
    /\ out = <<>>

\* tryInsertFile of the next entry of the listing
InsertListedFile ==
    /\ args[2] < Len(args[1])
    /\ LET r == tryInsertFile(Self, FriendlyContents[args[1][args[2] + 1]], 0)
       IN /\ sequence' = r.S.sequence
          /\ filesList' = r.S.filesList
          /\ filesMap' = r.S.filesMap
          /\ frameNumberStringIndexes' = r.S.frameNumberStringIndexes
          /\ totalSize' = r.S.totalSize
          /\ ret' = r.ret
    /\ args' = <<args[1], args[2] + 1>>
    /\ op' = "tryInsertFile"
    /\ UNCHANGED <<sizeEstimationEnabled, out>>

GenerateUserFriendlySequencePattern ==
    /\ args[2] = Len(args[1])
    /\ op = "tryInsertFile"
    /\ out' = <<generateUserFriendlySequencePattern(Self)>>
    /\ op' = "generateUserFriendlySequencePattern"
    /\ UNCHANGED <<aggregate, sizeEstimationEnabled, ret, args>>

NextFriendly == InsertListedFile \/ GenerateUserFriendlySequencePattern

SpecFriendly == InitFriendly /\ [][NextFriendly]_vars

\* the maximal runs of consecutive numbers of the set F, as pairs <<start, end>>
MaximalRuns(F) ==
    {<<a, b>> \in F \X F :
        /\ a <= b
        /\ \A n \in a..b : n \in F
        /\ (a - 1) \notin F
        /\ (b + 1) \notin F}

\* the ranges "start-end" (a lone number for a singleton) of the runs from
\* the number from on, joined by " / "
RECURSIVE JoinedRanges(_, _)
JoinedRanges(runs, from) ==
    LET rest == {r \in runs : r[1] >= from}
    IN IF rest = {} THEN <<>>
       ELSE LET r == CHOOSE x \in rest : \A y \in rest : x[1] <= y[1]
                range == IF r[1] = r[2] THEN stringFromInt(r[1])
                         ELSE stringFromInt(r[1]) \o <<"-">> \o stringFromInt(r[2])
                more == JoinedRanges(runs, r[2] + 1)
            IN IF more = <<>> THEN range ELSE range \o <<" ", "/", " ">> \o more

\* every frame of F but the first has a frame of F fewer than hole + 1
\* absent numbers before it
GapsAtMost(F, hole) ==
    \A f \in F : (\E g \in F : g < f) => \E g \in F : g < f /\ f - g - 1 <= hole

\* C14: for frames that form several maximal consecutive runs (no gap
\* reaching the hole limit), generateUserFriendlySequencePattern returns the
\* pattern followed by exactly " ( ", the ranges joined by " / ", and " ) ":
\* frames 1,2,3,7,8,9 give the suffix " ( 1-3 / 7-9 ) ".
C14_RangesInParentheses ==
    LET F == Range(args[1])
    IN (/\ op = "generateUserFriendlySequencePattern"
        /\ Cardinality(MaximalRuns(F)) >= 2
        /\ GapsAtMost(F, NATRON_DIALOG_MAX_SEQUENCES_HOLE - 1))
          => out[1].pattern
               = removePath(generateValidSequencePattern(Self)).filename
                 \o <<" ", "(", " ">> \o JoinedRanges(MaximalRuns(F), 0)
                 \o <<" ", ")", " ">>

\* C15: generateUserFriendlySequencePattern stops scanning only at a gap of
\* more than 1000 absent frame numbers: the frames it reports are exactly the
\* frames that come before the first such gap (frames 1 and 1002 are both
\* reported, of frames 1 and 1003 only the first).
C15_StopsOnlyAfterMoreThanHoleAbsent ==
    LET F == Range(args[1])
    IN (op = "generateUserFriendlySequencePattern" /\ Cardinality(F) >= 2)
          => UNION {c[1]..c[2] : c \in Range(out[1].chunks)}
               = {f \in F : GapsAtMost({g \in F : g <= f},
                                       NATRON_DIALOG_MAX_SEQUENCES_HOLE)}

(***************************************************************************)
(* SpecSize: an aggregator built with or without size estimation is        *)
(* offered files whose byte length can or cannot be read.                  *)
(***************************************************************************)
\* the files offered: one directory, one digit run
SizeFiles == {<<d>> : d \in Digits(MaxDigit)}

\* SequenceFromFiles(enableSizeEstimation) or
\* SequenceFromFiles(firstFile, enableSizeEstimation); args is the file and
\* the result of tellg() on it, out the total size and the number of members
\* before the call and what the call returns when the length can be read
InitSize ==
    \E enable \in BOOLEAN :
        /\ \/ /\ Holds(SequenceFromFilesPrivate(enable))
              /\ args = <<>>
           \/ \E f \in SizeFiles, tellg \in TellgResults :
                 /\ Holds(SequenceFromFiles(Contents[f], enable, tellg))
                 /\ args = <<f, tellg>>
        /\ op = "SequenceFromFiles"
        /\ ret = TRUE
        /\ out = <<0, 0, TRUE>>

TryInsertSizedFile(f, tellg) ==
    /\ LET r == tryInsertFile(Self, Contents[f], tellg)
       IN /\ Len(r.S.sequence) <= MaxMembers
          /\ sequence' = r.S.sequence
          /\ filesList' = r.S.filesList
          /\ filesMap' = r.S.filesMap
          /\ frameNumberStringIndexes' = r.S.frameNumberStringIndexes
          /\ totalSize' = r.S.totalSize
          /\ ret' = r.ret
    /\ op' = "tryInsertFile"
    /\ args' = <<f, tellg>>
    /\ out' = <<totalSize, Len(sequence),
                tryInsertFile(Self, Contents[f], FileBytes).ret>>
    /\ UNCHANGED sizeEstimationEnabled

NextSize == \E f \in SizeFiles, tellg \in TellgResults : TryInsertSizedFile(f, tellg)

SpecSize == InitSize /\ [][NextSize]_vars

\* C19: a call adds to the total size the byte length of the member it
\* accepted when size estimation is enabled and the probe succeeded, and
\* nothing otherwise: a failed probe contributes 0, a call that accepts no
\* member or runs with size estimation disabled does not probe; the failed
\* probe does not abort the insert.
C19_FailedProbeContributesZero ==
    /\ args # <<>> =>
         totalSize = out[1] + (IF /\ sizeEstimationEnabled
                                  /\ Len(sequence) > out[2]
                                  /\ args[2] # -1
                               THEN args[2] ELSE 0)
    /\ ret = out[3]

(***************************************************************************)
(* The case-insensitive string helpers.                                    *)
(***************************************************************************)
LowerChars ==
    <<"a", "b", "c", "d", "e", "f", "g", "h", "i", "j", "k", "l", "m",
      "n", "o", "p", "q", "r", "s", "t", "u", "v", "w", "x", "y", "z">>

UpperChars ==
    <<"A", "B", "C", "D", "E", "F", "G", "H", "I", "J", "K", "L", "M",
      "N", "O", "P", "Q", "R", "S", "T", "U", "V", "W", "X", "Y", "Z">>

\* std::isalpha
isalpha(c) == \E i \in 1..26 : LowerChars[i] = c \/ UpperChars[i] = c

\* std::toupper
toupper(c) ==
    IF \E i \in 1..26 : LowerChars[i] = c
    THEN UpperChars[CHOOSE i \in 1..26 : LowerChars[i] = c]
    ELSE c

\* std::tolower
tolower(c) ==
    IF \E i \in 1..26 : UpperChars[i] = c
    THEN LowerChars[CHOOSE i \in 1..26 : UpperChars[i] = c]
    ELSE c

\* ci_find_substr: the first match of str2 in str1, letters compared after
\* toupper; the search always starts at the beginning of str1
ci_find_substr(str1, str2) ==
    LET hits == {p \in 0..(Len(str1) - Len(str2)) :
                    \A k \in 1..Len(str2) : toupper(str1[p + k]) = toupper(str2[k])}
    IN IF hits = {} THEN npos ELSE CHOOSE p \in hits : \A q \in hits : p <= q

\* findStr with caseSensitive = false: pos is not used
findStrNoCase(from, toSearch, pos) == ci_find_substr(from, toSearch)

\* startsWith (caseSensitive = false)
startsWith(str, prefix) == findStrNoCase(str, prefix, 0) = 0

\* endsWith
endsWith(str, suffix) ==
    /\ Len(str) >= Len(suffix)
    /\ SubSeq(str, Len(str) - Len(suffix) + 1, Len(str)) = suffix

\* removeAllOccurences with caseSensitive = false
RECURSIVE removeAllOccurencesNoCase(_, _)
removeAllOccurencesNoCase(str, toRemove) ==
    IF Len(str) = 0 THEN str
    ELSE LET i == findStrNoCase(str, toRemove, 0)
         IN IF i = npos THEN str
            ELSE removeAllOccurencesNoCase(Erase(str, i, Len(toRemove)), toRemove)

\* removeFileExtension: [extension |-> the returned extension, filename |->
\* the argument afterwards]; substr(0, -1) is the whole string when there is
\* no '.'
removeFileExtension(filename) ==
    LET i == FindLastOf(filename, ".")
    IN [extension |-> SubSeq(filename, i + 2, Len(filename)),
        filename |-> IF i = npos THEN filename ELSE Substr(filename, 0, i)]

(***************************************************************************)
(* The pattern compiler.                                                   *)
(***************************************************************************)
\* the loop of extractCommonPartsAndVariablesFromPattern; st holds the local
\* variables and the two output lists, st.returned tells that the function
\* has left with return false
RECURSIVE extractLoop(_, _, _)
extractLoop(pattern, i, st) ==
    IF i >= Len(pattern) \/ st.returned THEN st
    ELSE
    LET c == At(pattern, i)
        \* commonParts->push_back(commonPart) when it is not empty
        flushedCommon ==
            IF st.commonPart # <<>>
            THEN [st EXCEPT !.commonParts = Append(@, st.commonPart),
                            !.commonCharactersFound = @ + Len(st.commonPart),
                            !.commonPart = <<>>]
            ELSE st
        pushVariable(t) ==
            [t EXCEPT !.variablesByOrder =
                          Append(@, <<t.variable, t.commonCharactersFound>>),
                      !.variable = <<>>]
    IN IF c = "#"
       THEN LET t == flushedCommon
                u == IF ~t.previousCharIsSharp /\ t.variable # <<>>
                     THEN pushVariable(t) ELSE t
            IN extractLoop(pattern, i + 1,
                   [u EXCEPT !.variable = Append(@, c), !.previousCharIsSharp = TRUE])
       ELSE IF c = "%"
       THEN LET next == IF i < Len(pattern) - 1 THEN At(pattern, i + 1) ELSE "\\0"
                prev == IF i > 0 THEN At(pattern, i - 1) ELSE "\\0"
            IN IF next = "\\0" \/ prev = "%"
               THEN extractLoop(pattern, i + 1, [st EXCEPT !.commonPart = Append(@, c)])
               ELSE IF next # "%"
               THEN IF st.inPrintfLikeArg
                    THEN [st EXCEPT !.returned = TRUE]
                    ELSE LET t == [flushedCommon EXCEPT !.printfLikeArgIndex = 0,
                                                        !.inPrintfLikeArg = TRUE]
                             u == IF t.variable # <<>> THEN pushVariable(t) ELSE t
                         IN extractLoop(pattern, i + 1,
                                        [u EXCEPT !.variable = Append(@, c)])
               ELSE extractLoop(pattern, i + 1, st)
       ELSE IF c \in {"d", "v", "V"} /\ st.inPrintfLikeArg
       THEN extractLoop(pattern, i + 1,
                pushVariable([st EXCEPT !.inPrintfLikeArg = FALSE,
                                        !.variable = Append(@, c)]))
       ELSE IF st.inPrintfLikeArg
       THEN LET t == [st EXCEPT !.printfLikeArgIndex = @ + 1,
                                !.variable = Append(@, c)]
            IN extractLoop(pattern, i + 1,
                   IF isalpha(c) \/ (t.printfLikeArgIndex = 1 /\ c # "0")
                   THEN [t EXCEPT !.commonParts = Append(@, t.variable),
                                  !.commonCharactersFound = @ + Len(t.variable),
                                  !.variable = <<>>,
                                  !.inPrintfLikeArg = FALSE]
                   ELSE t)
       ELSE LET t == [st EXCEPT !.commonPart = Append(@, c)]
            IN extractLoop(pattern, i + 1,
                           IF t.variable # <<>> THEN pushVariable(t) ELSE t)

\* extractCommonPartsAndVariablesFromPattern: ok is its return value; the two
\* lists are filled as far as the function got
extractCommonPartsAndVariablesFromPattern(patternUnPathedWithoutExt, patternExtension) ==
    LET st == extractLoop(patternUnPathedWithoutExt, 0,
                  [inPrintfLikeArg |-> FALSE, printfLikeArgIndex |-> 0,
                   commonPart |-> <<>>, variable |-> <<>>,
                   commonCharactersFound |-> 0, previousCharIsSharp |-> FALSE,
                   commonParts |-> <<>>, variablesByOrder |-> <<>>,
                   returned |-> FALSE])
    IN IF st.returned
       THEN [ok |-> FALSE, commonParts |-> st.commonParts,
             variablesByOrder |-> st.variablesByOrder]
       ELSE LET withCommon == IF st.commonPart # <<>>
                              THEN Append(st.commonParts, st.commonPart)
                              ELSE st.commonParts
                found == st.commonCharactersFound + Len(st.commonPart)
            IN [ok |-> TRUE,
                commonParts |-> IF patternExtension # <<>>
                                THEN Append(withCommon, <<".">> \o patternExtension)
                                ELSE withCommon,
                variablesByOrder |-> IF st.variable # <<>>
                                     THEN Append(st.variablesByOrder, <<st.variable, found>>)
                                     ELSE st.variablesByOrder]

(***************************************************************************)
(* generateFileNameFromPattern.                                            *)
(***************************************************************************)
\* the pattern without its path, split at the last '.', as both
\* filesListFromPattern and generateFileNameFromPattern split it
splitPattern(pattern) ==
    LET unPathed == removePath(pattern)
        unExt == removeFileExtension(unPathed.filename)
    IN IF unExt.filename = <<>>
       THEN [patternPath |-> unPathed.path, patternUnPathed |-> unExt.extension,
             patternExtension |-> <<>>]
       ELSE [patternPath |-> unPathed.path, patternUnPathed |-> unExt.filename,
             patternExtension |-> unExt.extension]

\* frameNoStr with '0' inserted in front while it is shorter than size
RECURSIVE prependZeros(_, _)
prependZeros(frameNoStr, size) ==
    IF Len(frameNoStr) < size THEN prependZeros(<<"0">> \o frameNoStr, size)
    ELSE frameNoStr

\* the name of the view viewNumber for %v (short) or %V
viewNumberStr(viewNumber, short) ==
    IF viewNumber = 0 THEN (IF short THEN <<"l">> ELSE <<"l", "e", "f", "t">>)
    ELSE IF viewNumber = 1 THEN (IF short THEN <<"r">> ELSE <<"r", "i", "g", "h", "t">>)
    ELSE <<"v", "i", "e", "w">> \o stringFromInt(viewNumber)

\* the loop over variablesByOrder; st holds output and lastVariablePos.
\* st.threw is "out_of_range" when the variable is not found (the assert is
\* not compiled into a release build and output.replace(npos, ...) throws),
\* "invalid_argument" on the throw of the last branch
RECURSIVE renderLoop(_, _, _, _, _)
renderLoop(variablesByOrder, frameNumber, viewNumber, i, st) ==
    IF i >= Len(variablesByOrder) \/ st.threw # "" THEN st
    ELSE
    LET variable == variablesByOrder[i + 1][1]
        lastVariablePos ==
            findStrNoCase(st.output, variable,
                          IF st.lastVariablePos # npos THEN st.lastVariablePos ELSE 0)
        replaced(str) ==
            renderLoop(variablesByOrder, frameNumber, viewNumber, i + 1,
                       [output |-> Replace(st.output, lastVariablePos, Len(variable), str),
                        lastVariablePos |-> lastVariablePos, threw |-> ""])
    IN IF lastVariablePos = npos
       THEN [st EXCEPT !.threw = "out_of_range"]
       ELSE IF "#" \in Range(variable)
       THEN replaced(prependZeros(stringFromInt(frameNumber), Len(variable)))
       ELSE IF Find(variable, <<"%", "v">>, 0) # npos
       THEN replaced(viewNumberStr(viewNumber, TRUE))
       ELSE IF Find(variable, <<"%", "V">>, 0) # npos
       THEN replaced(viewNumberStr(viewNumber, FALSE))
       ELSE IF startsWith(variable, <<"%", "0">>) /\ endsWith(variable, <<"d">>)
       THEN LET digitsCountStr ==
                    removeAllOccurencesNoCase(
                        removeAllOccurencesNoCase(variable, <<"%", "0">>), <<"d">>)
            IN replaced(prependZeros(stringFromInt(frameNumber),
                                     stringToInt(digitsCountStr)))
       ELSE IF variable = <<"%", "d">>
       THEN replaced(stringFromInt(frameNumber))
       ELSE [st EXCEPT !.threw = "invalid_argument"]

\* generateFileNameFromPattern: the string it returns, or the exception it
\* throws; compiled is what extractCommonPartsAndVariablesFromPattern
\* returned to it
generateFileNameFromPattern(pattern, frameNumber, viewNumber) ==
    LET split == splitPattern(pattern)
        compiled == extractCommonPartsAndVariablesFromPattern(
                        split.patternUnPathed, split.patternExtension)
        st == renderLoop(compiled.variablesByOrder, frameNumber, viewNumber, 0,
                         [output |-> pattern, lastVariablePos |-> npos, threw |-> ""])
    IN [output |-> IF st.threw = "" THEN st.output ELSE <<>>,
        threw |-> st.threw,
        compiled |-> compiled.ok]

(***************************************************************************)
(* SpecRender: generateFileNameFromPattern on one pattern, frame number    *)
(* and view number.                                                        *)
(***************************************************************************)
fileHashesJpg ==
    <<"f", "i", "l", "e", ".", "#", "#", "#", "#", ".", "j", "p", "g">>

\* generated patterns, the pattern above, and patterns with a directory
RenderPatterns ==
    StringsUpTo({"#", "%", "0", "2", "d", "v", "V", "a"}, RenderMaxLen)
    \cup {fileHashesJpg, <<"d", "/", "a", "#", ".", "x">>, <<"d", "#", "/", "a", "#">>}

RenderFrames == {7, 123}

RenderViews == {-1, 0, 1, 2}

InitRender ==
    /\ Holds(SequenceFromFilesPrivate(FALSE))
    /\ op = "main"
    /\ ret = TRUE
    /\ args \in RenderPatterns \X RenderFrames \X RenderViews
    /\ out = <<>>

RenderFileName ==
    /\ op = "main"
    /\ out' = <<generateFileNameFromPattern(args[1], args[2], args[3])>>
    /\ op' = "generateFileNameFromPattern"
    /\ UNCHANGED <<aggregate, sizeEstimationEnabled, ret, args>>

NextRender == RenderFileName

SpecRender == InitRender /\ [][NextRender]_vars

\* the number of '#' of p from position i (1-based) on
RECURSIVE HashRun(_, _)
HashRun(p, i) == IF i <= Len(p) /\ p[i] = "#" THEN 1 + HashRun(p, i + 1) ELSE 0

\* the number of digits of p from position i (1-based) on
RECURSIVE DigitRun(_, _)
DigitRun(p, i) == IF i <= Len(p) /\ isdigit(p[i]) THEN 1 + DigitRun(p, i + 1) ELSE 0

\* the decimal frame number, zero-padded to width
Padded(frame, width) ==
    LET digits == stringFromInt(frame)
    IN [k \in 1..(width - Len(digits)) |-> "0"] \o digits

\* the rendering of the pattern text p from position i on: fields replaced,
\* "%%" and every other character kept
RECURSIVE Rendered(_, _, _, _)
Rendered(p, i, frame, view) ==
    IF i > Len(p) THEN <<>>
    ELSE LET next == IF i < Len(p) THEN p[i + 1] ELSE ""
             width == DigitRun(p, i + 2)
         IN IF p[i] = "#"
            THEN Padded(frame, HashRun(p, i)) \o Rendered(p, i + HashRun(p, i), frame, view)
            ELSE IF p[i] = "%" /\ next = "%"
            THEN <<"%", "%">> \o Rendered(p, i + 2, frame, view)
            ELSE IF p[i] = "%" /\ next = "d"
            THEN stringFromInt(frame) \o Rendered(p, i + 2, frame, view)
            ELSE IF p[i] = "%" /\ next = "v"
            THEN (IF view = 0 THEN <<"l">> ELSE IF view = 1 THEN <<"r">>
                  ELSE <<"v", "i", "e", "w">> \o stringFromInt(view))
                 \o Rendered(p, i + 2, frame, view)
            ELSE IF p[i] = "%" /\ next = "V"
            THEN (IF view = 0 THEN <<"l", "e", "f", "t">>
                  ELSE IF view = 1 THEN <<"r", "i", "g", "h", "t">>
                  ELSE <<"v", "i", "e", "w">> \o stringFromInt(view))
                 \o Rendered(p, i + 2, frame, view)
            ELSE IF /\ p[i] = "%" /\ next = "0"
                    /\ i + 2 + width <= Len(p) /\ p[i + 2 + width] = "d"
            THEN Padded(frame, stringToInt(SubSeq(p, i + 2, i + 1 + width)))
                 \o Rendered(p, i + 3 + width, frame, view)
            ELSE <<p[i]>> \o Rendered(p, i + 1, frame, view)

\* the pattern with the fields of its file name (between the last '/' and the
\* last '.') rendered; directory and extension are kept
RenderedPattern(pattern, frame, view) ==
    LET slash == FindLastOf(pattern, "/")
        dot == FindLastOf(pattern, ".")
        last == IF dot > slash + 1 THEN dot ELSE Len(pattern)
    IN SubSeq(pattern, 1, slash + 1)
       \o Rendered(SubSeq(pattern, slash + 2, last), 1, frame, view)
       \o SubSeq(pattern, last + 1, Len(pattern))

\* C18: generateFileNameFromPattern replaces each variable of the pattern at
\* its own position (frame fields by the zero-padded decimal frame number, %v
\* by l/r/view<N>, %V by left/right/view<N>) and leaves every other character
\* unchanged, directory, extension and "%%" included; ("file.####.jpg", 7, -1)
\* gives "file.0007.jpg".  Patterns that do not compile or hold a variable the
\* renderer does not recognize are left aside.
C18_VariablesRenderedInPlace ==
    (/\ op = "generateFileNameFromPattern"
     /\ out[1].compiled
     /\ out[1].threw # "invalid_argument")
        => /\ out[1].threw = ""
           /\ out[1].output = RenderedPattern(args[1], args[2], args[3])

(***************************************************************************)
(* The variable validator and the file-name matcher.                       *)
(***************************************************************************)
view == <<"v", "i", "e", "w">>
left == <<"l", "e", "f", "t">>
right == <<"r", "i", "g", "h", "t">>

\* the number of '0' characters variable starts with
RECURSIVE prepending0s(_, _)
prepending0s(variable, i) ==
    IF i < Len(variable) /\ At(variable, i) = "0" THEN 1 + prepending0s(variable, i + 1)
    ELSE 0

\* Body applied to a value that is computed once, as a local variable of the
\* code holds the result of one call
With(value, Body(_)) == Body(value)

\* checkVariable without any of its tests: every string is accepted
checkVariableAcceptsAll(variableToken, variable, type) ==
    [ok |-> TRUE, value |-> stringToInt(variable), threw |-> FALSE]

\* checkVariable(variableToken, variable, type, &frameNumberOrViewNumber):
\* ok is the return value, value the number written, threw tells that
\* std::invalid_argument was thrown
checkVariable(variableToken, variable, type) ==
    LET no == [ok |-> FALSE, value |-> 0, threw |-> FALSE]
        yes(n) == [ok |-> TRUE, value |-> n, threw |-> FALSE]
        viewNo == stringToInt(removeAllOccurencesNoCase(variable, view))
    IN IF variableToken = <<"%", "v">>
       THEN IF type # 1 THEN no
            ELSE IF variable = <<"r">> THEN yes(1)
            ELSE IF variable = <<"l">> THEN yes(0)
            ELSE IF startsWith(variable, view) THEN yes(viewNo)
            ELSE no
       ELSE IF variableToken = <<"%", "V">>
       THEN IF type # 2 THEN no
            ELSE IF variable = right THEN yes(1)
            ELSE IF variable = left THEN yes(0)
            ELSE IF startsWith(variable, view) THEN yes(viewNo)
            ELSE no
       ELSE IF "#" \in Range(variableToken)
       THEN IF type # 0 THEN no
            ELSE IF Len(variable) < Len(variableToken) THEN no
            ELSE IF Len(variable) > Len(variableToken) /\ prepending0s(variable, 0) > 0
            THEN no
            ELSE yes(stringToInt(variable))
       ELSE IF startsWith(variableToken, <<"%", "0">>) /\ endsWith(variableToken, <<"d">>)
       THEN LET extraPaddingCount ==
                    stringToInt(removeAllOccurencesNoCase(
                        removeAllOccurencesNoCase(variableToken, <<"%", "0">>), <<"d">>))
            IN IF type # 0 THEN no
               ELSE IF Len(variable) < extraPaddingCount THEN no
               ELSE IF Len(variable) > extraPaddingCount /\ prepending0s(variable, 0) > 0
               THEN no
               ELSE yes(stringToInt(variable))
       ELSE IF variableToken = <<"%", "d">>
       THEN yes(stringToInt(variable))
       ELSE [ok |-> FALSE, value |-> 0, threw |-> TRUE]

\* stands for the value of an int that was never written (the caller's
\* frameNumber is not initialized): whatever the memory held
Indeterminate == INT_MIN

\* the outcomes of the matcher: still running, return true, return false, a read of
\* variablesOrdered at an index that is not smaller than its size, an
\* exception out of checkVariable
Running == "running"
ReturnedTrue == "true"
ReturnedFalse == "false"
OutOfRange == "out of range"
Threw == "threw"

\* the part of the matcher's loop body that closes a digit run: st.variable
\* is checked against the next expected variable as a frame number
closeDigitRun(variablesOrdered, st) ==
    IF st.variable = <<>> THEN st
    ELSE IF st.nextVariableIndex >= Len(variablesOrdered)
    THEN [st EXCEPT !.result = OutOfRange]
    ELSE LET expected == variablesOrdered[st.nextVariableIndex + 1]
         IN IF expected[2] # st.commonCharactersFound
            THEN [st EXCEPT !.result = ReturnedFalse]
            ELSE With(checkVariable(expected[1], st.variable, 0), LAMBDA checked :
                 IF checked.threw THEN [st EXCEPT !.result = Threw]
                 ELSE IF ~checked.ok THEN [st EXCEPT !.result = ReturnedFalse]
                 ELSE IF st.wasFrameNumberSet /\ checked.value # st.frameNumber
                 THEN [st EXCEPT !.result = ReturnedFalse]
                 ELSE [st EXCEPT !.variableChecked = @ + 1,
                                 !.nextVariableIndex = @ + 1,
                                 !.wasFrameNumberSet = TRUE,
                                 !.frameNumber = checked.value,
                                 !.variable = <<>>])

\* a lone 'l' (viewNo 0) or 'r' (viewNo 1): a view when %v is expected here,
\* else a common character
shortViewName(variablesOrdered, st, viewNo) ==
    IF st.nextVariableIndex >= Len(variablesOrdered)
    THEN [st EXCEPT !.result = OutOfRange]
    ELSE LET expected == variablesOrdered[st.nextVariableIndex + 1]
         IN IF expected[1] = <<"%", "v">> /\ expected[2] = st.commonCharactersFound
            THEN IF st.wasViewNumberSet /\ st.viewNumber # viewNo
                 THEN [st EXCEPT !.result = ReturnedFalse]
                 ELSE [st EXCEPT !.wasViewNumberSet = TRUE,
                                 !.viewNumber = viewNo,
                                 !.variableChecked = @ + 1,
                                 !.nextVariableIndex = @ + 1,
                                 !.i = @ + 1]
            ELSE [st EXCEPT !.commonCharactersFound = @ + 1, !.i = @ + 1]

\* "left", "right" or "view<N>": variable is the string handed to
\* checkVariable with the type, consumed the number of characters to skip
longViewName(variablesOrdered, st, variable, type, consumed) ==
    IF st.nextVariableIndex >= Len(variablesOrdered)
    THEN [st EXCEPT !.result = OutOfRange]
    ELSE LET expected == variablesOrdered[st.nextVariableIndex + 1]
         IN IF expected[2] # st.commonCharactersFound
            THEN [st EXCEPT !.result = ReturnedFalse]
            ELSE With(checkVariable(expected[1], variable,
                                    IF type = 0
                                    THEN (IF expected[1] = <<"%", "v">> THEN 1 ELSE 2)
                                    ELSE type), LAMBDA checked :
                 IF checked.threw THEN [st EXCEPT !.result = Threw]
                 ELSE IF ~checked.ok THEN [st EXCEPT !.result = ReturnedFalse]
                 ELSE IF st.wasViewNumberSet /\ checked.value # st.viewNumber
                 THEN [st EXCEPT !.result = ReturnedFalse]
                 ELSE [st EXCEPT !.nextVariableIndex = @ + 1,
                                 !.variableChecked = @ + 1,
                                 !.wasViewNumberSet = TRUE,
                                 !.viewNumber = checked.value,
                                 !.i = @ + consumed])

\* the digits of mid from position j (0-based) on
RECURSIVE leadingDigits(_, _)
leadingDigits(mid, j) ==
    IF j < Len(mid) /\ isdigit(At(mid, j)) THEN <<At(mid, j)>> \o leadingDigits(mid, j + 1)
    ELSE <<>>

\* the second loop of the matcher
RECURSIVE matchLoop(_, _, _)
matchLoop(filename, variablesOrdered, st) ==
    IF st.i >= Len(filename) \/ st.result # Running THEN st
    ELSE
    LET c == At(filename, st.i)
    IN IF isdigit(c)
       THEN matchLoop(filename, variablesOrdered,
                      [st EXCEPT !.variable = Append(@, c), !.i = @ + 1])
       ELSE
       With(closeDigitRun(variablesOrdered, st), LAMBDA t :
       LET clower == tolower(c)
           mid == SubSeq(filename, t.i + 1, Len(filename))
           startsWithLeft == startsWith(mid, left)
           startsWithRight == startsWith(mid, right)
           startsWithView == startsWith(mid, view)
           viewNumberDigits == leadingDigits(mid, 4)
           u == IF clower \in {"l", "r", "v"}
                THEN IF startsWith(mid, <<"l">>) /\ ~startsWithLeft
                     THEN shortViewName(variablesOrdered, t, 0)
                     ELSE IF startsWith(mid, <<"r">>) /\ ~startsWithRight
                     THEN shortViewName(variablesOrdered, t, 1)
                     ELSE IF startsWithLeft
                     THEN longViewName(variablesOrdered, t, left, 2, 4)
                     ELSE IF startsWithRight
                     THEN longViewName(variablesOrdered, t, right, 2, 5)
                     ELSE IF startsWithView
                     THEN IF viewNumberDigits # <<>>
                          THEN longViewName(variablesOrdered, t,
                                            t.variable \o view \o viewNumberDigits, 0,
                                            Len(t.variable) + 4 + Len(viewNumberDigits))
                          ELSE [t EXCEPT !.commonCharactersFound = @ + 4, !.i = @ + 4]
                     ELSE [t EXCEPT !.commonCharactersFound = @ + 1, !.i = @ + 1]
                ELSE [t EXCEPT !.commonCharactersFound = @ + 1, !.i = @ + 1]
       IN IF t.result # Running THEN t
          ELSE matchLoop(filename, variablesOrdered,
                         IF clower \in {"l", "r", "v"} THEN [u EXCEPT !.variable = <<>>]
                         ELSE u))

\* matchesPattern(filename, commonPartsOrdered, variablesOrdered,
\* &frameNumber, &viewNumber): result is ReturnedTrue or ReturnedFalse for a
\* return, OutOfRange or Threw when the call did not get to one
matchesPatternOfFile(filename, commonPartsOrdered, variablesOrdered) ==
    LET none == [result |-> ReturnedFalse, frameNumber |-> Indeterminate,
                 viewNumber |-> -1]
    IN IF \E k \in 1..Len(commonPartsOrdered) :
              findStr(filename, commonPartsOrdered[k], 0) = npos
       THEN none
       ELSE IF variablesOrdered = <<>> THEN [none EXCEPT !.result = ReturnedTrue]
       ELSE With(matchLoop(filename, variablesOrdered,
                          [i |-> 0, variable |-> <<>>, commonCharactersFound |-> 0,
                           wasFrameNumberSet |-> FALSE, wasViewNumberSet |-> FALSE,
                           variableChecked |-> 0, nextVariableIndex |-> 0,
                           frameNumber |-> Indeterminate, viewNumber |-> -1,
                           result |-> Running]), LAMBDA st :
                 [result |-> IF st.result # Running THEN st.result
                             ELSE IF st.variableChecked = Len(variablesOrdered)
                             THEN ReturnedTrue
                             ELSE ReturnedFalse,
                  frameNumber |-> st.frameNumber,
                  viewNumber |-> st.viewNumber])

(***************************************************************************)
(* filesListFromPattern.                                                   *)
(***************************************************************************)
\* the loop over the files of the directory; st holds sequence (frame number
\* -> view number -> absolute file name) and outcome: Running, or OutOfRange
\* or Threw when the matcher did not return
RECURSIVE filesLoop(_, _, _, _, _)
filesLoop(files, patternPath, compiled, i, st) ==
    IF i >= Len(files) \/ st.outcome # Running THEN st
    ELSE With(matchesPatternOfFile(files[i + 1], compiled.commonParts,
                                   compiled.variablesByOrder), LAMBDA m :
         LET absoluteFileName == patternPath \o files[i + 1]
         IN IF m.result \in {OutOfRange, Threw}
            THEN [st EXCEPT !.outcome = m.result]
            ELSE IF m.result = ReturnedTrue
            THEN filesLoop(files, patternPath, compiled, i + 1,
                     [st EXCEPT !.sequence =
                         IF m.frameNumber \in DOMAIN st.sequence
                         THEN [@ EXCEPT ![m.frameNumber] =
                                   MapInsert(@, m.viewNumber, absoluteFileName)]
                         ELSE MapInsert(@, m.frameNumber,
                                        MapInsert(EmptyMap, m.viewNumber, absoluteFileName))])
            ELSE filesLoop(files, patternPath, compiled, i + 1, st))

\* filesListFromPattern(pattern, &sequence) in a directory that can be opened
\* and holds files: ret is the return value when outcome is "returned"
filesListFromPattern(pattern, files) ==
    IF pattern = <<>>
    THEN [ret |-> FALSE, sequence |-> EmptyMap, outcome |-> "returned",
          compiled |-> TRUE]
    ELSE With(splitPattern(pattern), LAMBDA split :
         With(extractCommonPartsAndVariablesFromPattern(
                  split.patternUnPathed, split.patternExtension), LAMBDA compiled :
         With(filesLoop(files, split.patternPath, compiled, 0,
                        [sequence |-> EmptyMap, outcome |-> Running]), LAMBDA st :
              [ret |-> TRUE, sequence |-> st.sequence,
               outcome |-> IF st.outcome = Running THEN "returned" ELSE st.outcome,
               compiled |-> compiled.ok])))

(***************************************************************************)
(* SpecList: a pattern is compiled and matched against the one file of a   *)
(* directory, or rendered for a frame number.                              *)
(***************************************************************************)
ListPatterns == StringsUpTo({"#", "%", "0", "d", "l", "."}, ListMaxLen)

ListFileNames == StringsUpTo({"1", "l", "."}, ListMaxLen)

InitList ==
    /\ Holds(SequenceFromFilesPrivate(FALSE))
    /\ op = "main"
    /\ ret = TRUE
    /\ args \in ListPatterns \X ListFileNames
    /\ out = <<>>

\* filesListFromPattern(args[1], &sequence) in the directory that holds
\* args[2]; after a read out of range the call can return anything, and it
\* returns nothing when checkVariable throws
FilesListFromPattern ==
    /\ op = "main"
    /\ \E r \in {filesListFromPattern(args[1], <<args[2]>>)} :
          /\ out' = <<r>>
          /\ IF r.outcome = OutOfRange THEN ret' \in BOOLEAN
             ELSE IF r.outcome = Threw THEN ret' = ret
             ELSE ret' = r.ret
    /\ op' = "filesListFromPattern"
    /\ UNCHANGED <<aggregate, sizeEstimationEnabled, args>>

\* generateFileNameFromPattern(args[1], 1, -1)
GenerateFileNameFromPattern ==
    /\ op = "main"
    /\ out' = <<generateFileNameFromPattern(args[1], 1, -1)>>
    /\ op' = "generateFileNameFromPattern"
    /\ UNCHANGED <<aggregate, sizeEstimationEnabled, ret, args>>

NextList == FilesListFromPattern \/ GenerateFileNameFromPattern

SpecList == InitList /\ [][NextList]_vars

\* C16: when the pattern does not compile (a printf field is opened while
\* another is open), filesListFromPattern returns false and leaves the
\* sequence empty, and generateFileNameFromPattern throws instead of returning
\* a file name.
C16_CompileFailureSurfaced ==
    /\ (op = "filesListFromPattern" /\ ~out[1].compiled)
          => ret = FALSE /\ out[1].sequence = EmptyMap
    /\ (op = "generateFileNameFromPattern" /\ ~out[1].compiled)
          => out[1].threw # ""

\* C20: the matcher reads the list of expected variables only at indexes
\* smaller than its size, whatever the file name and the compiled pattern.
C20_VariableReadsInRange ==
    op = "filesListFromPattern" => out[1].outcome # OutOfRange

(***************************************************************************)
(* SpecRound: a file name stem.ext is tokenized, its pattern is generated  *)
(* with every digit run abstracted, and the pattern is compiled and        *)
(* matched against the file name.                                          *)
(***************************************************************************)
view1x == <<"v", "i", "e", "w", "1", ".", "x">>

RoundNames ==
    {stem \o <<".", "x">> : stem \in StringsUpTo({"1", "2", "a", "l"}, RoundMaxLen)}
    \cup {view1x}

RoundContents == [f \in RoundNames |-> FileNameContent(f)]

InitRound ==
    /\ Holds(SequenceFromFilesPrivate(FALSE))
    /\ op = "main"
    /\ ret = TRUE
    /\ args \in {<<f>> : f \in RoundNames}
    /\ out = <<>>

\* FileNameContent(args[1]).generatePatternWithFrameNumberAtIndexes(every
\* ordinal, &pattern), then filesListFromPattern(pattern, &sequence) in the
\* directory that holds the file
RoundTrip ==
    /\ op = "main"
    /\ \E content \in {RoundContents[args[1]]} :
       \E pattern \in {generatePatternWithFrameNumberAtIndexes(content,
                           [k \in 1..Len(NumberElements(content)) |-> k - 1]).pattern} :
       \E r \in {filesListFromPattern(pattern, <<content.filename>>)} :
          /\ out' = <<pattern, r>>
          /\ IF r.outcome = OutOfRange THEN ret' \in BOOLEAN
             ELSE IF r.outcome = Threw THEN ret' = ret
             ELSE ret' = r.ret
    /\ op' = "filesListFromPattern"
    /\ UNCHANGED <<aggregate, sizeEstimationEnabled, args>>

NextRound == RoundTrip

SpecRound == InitRound /\ [][NextRound]_vars

\* the numbers written by the digit runs of name
RunValues(name) ==
    {stringToInt(SubSeq(name, i, Len(name))) : i \in DigitRunStarts(name)}

\* C17: for a file name stem.ext with a digit run, the pattern generated with
\* every digit-run ordinal, once compiled, matches the file name, and the
\* frame number the matcher returns is the number of the file name.
C17_RoundTripRecoversFrame ==
    (op = "filesListFromPattern" /\ DigitRunStarts(args[1]) # {})
        => /\ out[2].outcome = "returned"
           /\ \E frame \in RunValues(args[1]) :
                  out[2].sequence = MapInsert(EmptyMap, frame,
                                              MapInsert(EmptyMap, -1, args[1]))

(***************************************************************************)
(* SpecPattern: a pattern is compiled and one file name of its directory   *)
(* is matched against the compiled token lists.                            *)
(***************************************************************************)
\* the generated stems, without an extension and with the extension "x"
WithAndWithoutExtension(stems) == stems \cup {stem \o <<".", "x">> : stem \in stems}

\* a pattern with a loose frame field and a file named after a view
percentDx == <<"%", "d", ".", "x">>
leftx == left \o <<".", "x">>

MatcherPatterns ==
    WithAndWithoutExtension(StringsUpTo({"#", "a", "b", "%", "v"}, PatternMaxLen))
    \cup {percentDx}

\* a file name can also go on with a digit after its extension
MatcherFileNames ==
    LET stems == StringsUpTo({"0", "1", "a", "b", "l", "r"}, FileMaxLen)
    IN WithAndWithoutExtension(stems) \cup {stem \o <<".", "x", "1">> : stem \in stems}
       \cup {leftx}

InitPattern ==
    /\ Holds(SequenceFromFilesPrivate(FALSE))
    /\ op = "main"
    /\ ret = TRUE
    /\ args \in MatcherPatterns \X MatcherFileNames
    /\ out = <<>>

\* the body of filesListFromPattern for the file args[2]: the pattern
\* args[1] is split and compiled, then matchesPattern(args[2], commonParts,
\* variablesByOrder, &frameNumber, &viewNumber); after a read out of range
\* the call can return anything, and it returns nothing when checkVariable
\* throws
MatchFile ==
    /\ op = "main"
    /\ \E split \in {splitPattern(args[1])} :
       \E compiled \in {extractCommonPartsAndVariablesFromPattern(
                            split.patternUnPathed, split.patternExtension)} :
       \E m \in {matchesPatternOfFile(args[2], compiled.commonParts,
                                      compiled.variablesByOrder)} :
          /\ out' = <<compiled, m>>
          /\ IF m.result = OutOfRange THEN ret' \in BOOLEAN
             ELSE IF m.result = Threw THEN ret' = ret
             ELSE ret' = (m.result = ReturnedTrue)
    /\ op' = "matchesPattern"
    /\ UNCHANGED <<aggregate, sizeEstimationEnabled, args>>

NextPattern == MatchFile

SpecPattern == InitPattern /\ [][NextPattern]_vars

\* the literals parts[k..] occur in filename in this order, each one starting
\* at or after position from (0-based) and after the end of the one before
RECURSIVE InOrder(_, _, _, _)
InOrder(filename, parts, k, from) ==
    IF k > Len(parts) THEN TRUE
    ELSE LET pos == Find(filename, parts[k], from)
         IN pos # npos /\ InOrder(filename, parts, k + 1, pos + Len(parts[k]))

\* C21: when the matcher returns true, every literal token of the compiled
\* pattern occurs in the file name, in pattern order, each match starting
\* after the end of the previous literal's match.
C21_LiteralsMatchedInOrder ==
    (op = "matchesPattern" /\ out[2].result = ReturnedTrue)
        => InOrder(args[2], out[1].commonParts, 1, 0)

\* the variables of a compiled pattern that stand for a frame number
FrameVariables(variablesByOrder) ==
    {k \in DOMAIN variablesByOrder :
        variablesByOrder[k][1] \notin {<<"%", "v">>, <<"%", "V">>}}

a2Hashes == <<"a", "#", "#">>
a01 == <<"a", "0", "1">>

\* C22: every digit run of the file name is validated against a variable of
\* the pattern, the run that ends the file name included: when the matcher
\* returns true for a pattern with variables the file name has as many digit
\* runs as the pattern has frame variables, and the pattern "a##" matches the file "a01" with frame number 1.
C22_EveryDigitRunValidated ==
    op = "matchesPattern" =>
        /\ (out[2].result = ReturnedTrue /\ out[1].variablesByOrder # <<>>)
             => Cardinality(DigitRunStarts(args[2]))
                    = Cardinality(FrameVariables(out[1].variablesByOrder))
        /\ args = <<a2Hashes, a01>>
             => (out[2].result = ReturnedTrue /\ out[2].frameNumber = 1)

(***************************************************************************)
(* SpecCheck: checkVariable is called with a variable token, a string of   *)
(* the file name and a type.                                               *)
(***************************************************************************)
HashToken(w) == [k \in 1..w |-> "#"]

PrintfToken(w) == <<"%", "0">> \o stringFromInt(w) \o <<"d">>

Zeros(n) == [k \in 1..n |-> "0"]

\* the widths of the generated frame fields: the small ones and one that is
\* written with two digits
Widths == (1..WidthMax) \cup {10}

CheckTokens ==
    {HashToken(w) : w \in Widths} \cup {PrintfToken(w) : w \in Widths}
    \cup {<<"%", "d">>, <<"%", "v">>, <<"%", "V">>}

\* digit strings: the short ones, and strings of 10 and 11 digits
DigitStrings ==
    StringsUpTo({"0", "1"}, VariableMaxLen)
    \cup {Zeros(9) \o <<"1">>, Zeros(10) \o <<"1">>, <<"1">> \o Zeros(9), <<"1">> \o Zeros(10)}

ViewNames == {<<"l">>, <<"r">>, left, right, view \o <<"1">>}

InitCheck ==
    /\ Holds(SequenceFromFilesPrivate(FALSE))
    /\ op = "main"
    /\ ret = TRUE
    /\ args \in CheckTokens \X (DigitStrings \cup ViewNames) \X {0, 1, 2}
    /\ out = <<>>

\* checkVariable(args[1], args[2], args[3], &frameNumberOrViewNumber)
CheckVariable ==
    /\ op = "main"
    /\ \E r \in {checkVariable(args[1], args[2], args[3])} :
          /\ out' = <<r>>
          /\ ret' = IF r.threw THEN ret ELSE r.ok
    /\ op' = "checkVariable"
    /\ UNCHANGED <<aggregate, sizeEstimationEnabled, args>>

NextCheck == CheckVariable

SpecCheck == InitCheck /\ [][NextCheck]_vars

\* C23: checkVariable returns false when the kind of the token is not the
\* requested type: a frame token ('#' run, %0Nd or %d) requested as a short or
\* long view, and %v or %V requested as a frame number.
C23_InconsistentTypeFails ==
    op = "checkVariable" =>
        /\ (args[1] \notin {<<"%", "v">>, <<"%", "V">>} /\ args[3] # 0)
              => (~out[1].ok /\ ~out[1].threw)
        /\ (args[1] \in {<<"%", "v">>, <<"%", "V">>} /\ args[3] = 0)
              => (~out[1].ok /\ ~out[1].threw)

\* the number written by the digit string s
RECURSIVE Decimal(_)
Decimal(s) ==
    IF s = <<>> THEN 0
    ELSE 10 * Decimal(SubSeq(s, 1, Len(s) - 1)) + DigitValue(s[Len(s)])

compiledPattern(pattern) ==
    With(splitPattern(pattern), LAMBDA split :
         extractCommonPartsAndVariablesFromPattern(split.patternUnPathed,
                                                   split.patternExtension))

\* a run of '#', %0<digits>d, %d, %v or %V
KnownToken(token) ==
    \/ token \in {<<"%", "d">>, <<"%", "v">>, <<"%", "V">>}
    \/ token # <<>> /\ Range(token) = {"#"}
    \/ /\ Len(token) >= 4
       /\ SubSeq(token, 1, 2) = <<"%", "0">>
       /\ token[Len(token)] = "d"
       /\ \A k \in 3..(Len(token) - 1) : isdigit(token[k])

\* C25: every variable token of a pattern that compiles is a run of '#',
\* %0<digits>d, %d, %v or %V, and generateFileNameFromPattern does not throw
\* std::invalid_argument for such a pattern.
C25_OnlyKnownTokens ==
    (op = "generateFileNameFromPattern" /\ out[1].compiled)
        => /\ \A k \in DOMAIN compiledPattern(args[1]).variablesByOrder :
                  KnownToken(compiledPattern(args[1]).variablesByOrder[k][1])
           /\ out[1].threw # "invalid_argument"

\* the variables of a compiled pattern that stand for a view
ViewVariables(variablesByOrder) ==
    DOMAIN variablesByOrder \ FrameVariables(variablesByOrder)

\* the number of characters c of name
Occurrences(name, c) == Cardinality({i \in DOMAIN name : name[i] = c})

\* C26: when the matcher returns true, each digit run matched by a frame
\* variable writes the returned frame number, the returned view is the one
\* named as often as the pattern has view variables, and viewNumber is -1 for
\* a pattern without a view variable.
C26_FieldsAgree ==
    (op = "matchesPattern" /\ out[2].result = ReturnedTrue) =>
        LET frames == Cardinality(FrameVariables(out[1].variablesByOrder))
            views == Cardinality(ViewVariables(out[1].variablesByOrder))
            starts == DigitRunStarts(args[2])
        IN /\ \A i \in starts :
                  Cardinality({j \in starts : j <= i}) <= frames
                     => stringToInt(SubSeq(args[2], i, Len(args[2]))) = out[2].frameNumber
           /\ views = 0 => out[2].viewNumber = -1
           /\ views > 0 =>
                 \/ out[2].viewNumber = 0 /\ Occurrences(args[2], "l") >= views
                 \/ out[2].viewNumber = 1 /\ Occurrences(args[2], "r") >= views

(***************************************************************************)
(* SpecScan: the files of a directory listing are offered in order to an   *)
(* empty aggregator, then generateUserFriendlySequencePattern scans the    *)
(* frames, one iteration of its outer loop at a time.  During the scan     *)
(* out holds first and chunks.                                             *)
(***************************************************************************)
\* frames with small gaps, a gap just under the hole limit and a gap above it
ScanFrames ==
    {1, 2, 3, 5}
    \cup {NATRON_DIALOG_MAX_SEQUENCES_HOLE + 4, NATRON_DIALOG_MAX_SEQUENCES_HOLE + 5,
          2 * NATRON_DIALOG_MAX_SEQUENCES_HOLE + 10}

ScanContents == [n \in ScanFrames |-> FileNameContent(FrameFile(n))]

\* args[1] is the listing (frame numbers, ascending, possibly empty), args[2]
\* the number of entries offered so far
InitScan ==
    /\ Holds(SequenceFromFilesPrivate(FALSE))
    /\ op = "SequenceFromFiles"
    /\ ret = TRUE
    /\ args \in {<<Ascending(S), 0>> : S \in SUBSET ScanFrames}
    /\ out = <<>>

\* tryInsertFile of the next entry of the listing
InsertScannedFile ==
    /\ args[2] < Len(args[1])
    /\ \E r \in {tryInsertFile(Self, ScanContents[args[1][args[2] + 1]], 0)} :
          /\ sequence' = r.S.sequence
          /\ filesList' = r.S.filesList
          /\ filesMap' = r.S.filesMap
          /\ frameNumberStringIndexes' = r.S.frameNumberStringIndexes
          /\ totalSize' = r.S.totalSize
          /\ ret' = r.ret
    /\ args' = <<args[1], args[2] + 1>>
    /\ op' = "tryInsertFile"
    /\ UNCHANGED <<sizeEstimationEnabled, out>>

\* generateUserFriendlySequencePattern is called: it returns at once for a
\* single file (out stays empty), else the scan starts at getFirstFrame()
ScanBegin ==
    /\ args[2] = Len(args[1])
    /\ op \in {"SequenceFromFiles", "tryInsertFile"}
    /\ IF isSingleFile(Self)
       THEN op' = "generateUserFriendlySequencePattern" /\ out' = <<>>
       ELSE op' = "scan" /\ out' = <<getFirstFrame(Self), <<>>>>
    /\ UNCHANGED <<aggregate, sizeEstimationEnabled, ret, args>>

\* one iteration of the outer loop: the hole is skipped, and either the hole
\* limit is reached and the loop is left, or a chunk is added
ScanIteration ==
    /\ op = "scan"
    /\ out[1] <= getLastFrame(Self)
    /\ \E hole \in {holeLoop(Self, out[1], 0)} :
          IF hole.breakCounter >= NATRON_DIALOG_MAX_SEQUENCES_HOLE
          THEN /\ op' = "generateUserFriendlySequencePattern"
               /\ out' = <<hole.first, out[2]>>
          ELSE \E run \in {chunkLoop(Self, hole.first + 1, hole.first, 1)} :
                  /\ op' = "scan"
                  /\ out' = <<hole.first + run.count,
                              Append(out[2], <<hole.first, run.next - 1>>)>>
    /\ UNCHANGED <<aggregate, sizeEstimationEnabled, ret, args>>

\* the outer loop ends past the last frame
ScanEnd ==
    /\ op = "scan"
    /\ out[1] > getLastFrame(Self)
    /\ op' = "generateUserFriendlySequencePattern"
    /\ UNCHANGED <<aggregate, sizeEstimationEnabled, ret, args, out>>

NextScan == InsertScannedFile \/ ScanBegin \/ ScanIteration \/ ScanEnd

SpecScan == InitScan /\ [][NextScan]_vars

\* a call of generateUserFriendlySequencePattern that has begun goes on as
\* long as it can
SpecScanFair == SpecScan /\ WF_vars(ScanIteration \/ ScanEnd)

\* the scan position grows with every iteration of the outer loop
ScanAdvances ==
    [][(op = "scan" /\ op' = "scan") => out'[1] > out[1]]_vars

\* the scan has ended: past the last frame or behind a hole of
\* NATRON_DIALOG_MAX_SEQUENCES_HOLE frames; its chunks are those of
\* generateUserFriendlySequencePattern, they hold frames of the sequence
\* only, and each one lies after the one before
ScanResult ==
    (op = "generateUserFriendlySequencePattern" /\ out # <<>>) =>
        /\ \/ out[1] > getLastFrame(Self)
           \/ \A n \in (out[1] - NATRON_DIALOG_MAX_SEQUENCES_HOLE)..(out[1] - 1) :
                  ~isInSequence(Self, n)
        /\ out[2] = generateUserFriendlySequencePattern(Self).chunks
        /\ \A i \in DOMAIN out[2] :
              /\ out[2][i][1] <= out[2][i][2]
              /\ \A n \in out[2][i][1]..out[2][i][2] : isInSequence(Self, n)
              /\ i > 1 => out[2][i - 1][2] < out[2][i][1]

C28_WitnessEmpty ==
    /\ op = "generateUserFriendlySequencePattern"
    /\ filesList = <<>>
    /\ out # <<>>

====
